---- MODULE Spec2Model ----
(***************************************************************************)
(* A model of the semantic-query core of the CPG analytics chatbot:        *)
(* the AST node library (semantic_layer/ast_builder.py), the query         *)
(* compiler (semantic_layer/query_builder.py), the pattern registry        *)
(* (semantic_layer/query_patterns.py), the validator                       *)
(* (semantic_layer/validator.py), row-level security (security/rls.py),    *)
(* the diagnostic orchestrator (semantic_layer/orchestrator.py) and the    *)
(* request pipeline process_query (frontend/app.py, app_with_auth.py).     *)
(*                                                                         *)
(* Conventions.                                                            *)
(*  - A Python Optional is a sequence of length at most one: None is <<>>  *)
(*    and a present value x is <<x>>.                                      *)
(*  - SQL text is a sequence of text units whose concatenation is the      *)
(*    SQL string.  A unit is either one single-quote character or a run    *)
(*    of characters without a quote: a piece of a user-supplied string, or *)
(*    a fixed piece of SQL that the code writes (a column name, an         *)
(*    operator, a separator).  A quote is always a unit of its own, so     *)
(*    that a quote the code writes and a quote that came from a value      *)
(*    cannot be told apart in the text, as in the real string.             *)
(*  - Each subsystem has its own specification (SpecLiteral, SpecFilter,   *)
(*    SpecPattern, SpecPipeline, SpecSecurity, SpecCompile, SpecTrend,     *)
(*    SpecDiagnostic and, with fairness, SpecDiagnosticAnswered);          *)
(*    the variables a specification does not use stay at their idle value. *)
(***************************************************************************)
EXTENDS Integers, Sequences, FiniteSets, TLC

VARIABLES
    pc,              \* position of the operation under analysis
    literal,         \* the Literal node being rendered (ast_builder.Literal)
    filter_obj,      \* the Filter handed to _build_filter_condition
    where,           \* the WhereClause built by _build_where (Optional)
    sql,             \* rendered SQL text (sequence of text units)
    heap,            \* the SemanticQuery objects, by reference
    arg,             \* the reference passed to optimize / semantic_query_to_sql
    returned,        \* the references returned by the optimize calls, in order
    applied,         \* the pattern applied ("registry": PatternRegistry.optimize_query)
    query_ast,       \* the outcome of ASTQueryBuilder.build_query
    app,             \* the frontend serving the request ("app", "app_with_auth")
    current_user,    \* the logged-in user of app_with_auth (None in app)
    user_context,    \* the UserContext handed to apply_security (Optional)
    semantic_query,  \* the parsed query of the request (Optional)
    errors,          \* the list SemanticValidator.validate returned
    secured_query,   \* the query RowLevelSecurity.apply_security returned (Optional)
    queries,         \* the sub-queries the orchestrator has still to execute
    results,         \* the orchestrator's results dict, in insertion order
    response,        \* the response of the request (Optional)
    trace,           \* the steps of the request that ran, in order
    trend_data,      \* the metric values of the rows handed to _analyze_trend
    trend_analysis   \* the dict _analyze_trend returned (Optional)

literalVars == <<literal, filter_obj, where, sql>>
patternVars == <<heap, arg, returned, applied, query_ast>>
pipelineVars == <<app, current_user, user_context, semantic_query, errors, secured_query, queries, results, response, trace>>
analysisVars == <<trend_data, trend_analysis>>
vars == <<pc, literal, filter_obj, where, sql, heap, arg, returned, applied, query_ast, app, current_user, user_context, semantic_query, errors, secured_query, queries, results, response, trace, trend_data, trend_analysis>>

----------------------------------------------------------------------------
(* Optional values *)

None == <<>>
Some(x) == <<x>>
IsNone(o) == o = <<>>
IsSome(o) == o # <<>>
The(o) == o[1]

----------------------------------------------------------------------------
(* Bounds of the model *)

\* longest string (in units) rendered alone by Literal.to_sql
MaxLen == 6
\* longest string (in units) used as a filter value
MaxValueLen == 2
\* most values carried by one Filter
MaxValues == 2

\* What user strings are made of: the single quote, and a quote-free run of
\* characters that is SQL syntax outside a literal (it ends the statement,
\* starts another and opens a comment).  The string '; DROP TABLE x; -- is
\* the quote followed by the run.
Alphabet == {"'", "; DROP TABLE x; --"}

StringsUpTo(n) == UNION {[1..k -> Alphabet] : k \in 0..n}

----------------------------------------------------------------------------
(* Values carried by Literal and Filter.values (typing.Any): a string is   *)
(* [kind |-> "str", chars |-> its characters]; None, a bool and a number   *)
(* carry the unit str() prints.                                            *)

StrValue(s) == [kind |-> "str", chars |-> s]
NoneValue == [kind |-> "none", chars |-> <<"None">>]
BoolValue(b) == [kind |-> "bool", chars |-> IF b THEN <<"True">> ELSE <<"False">>]
NumValue(n) == [kind |-> "num", chars |-> <<ToString(n)>>]

----------------------------------------------------------------------------
(* ast_builder.py: expression and clause nodes *)

\* str.replace("'", "''")
RECURSIVE replace_quote(_)
replace_quote(s) ==
    IF s = <<>> THEN <<>>
    ELSE (IF Head(s) = "'" THEN <<"'", "'">> ELSE <<Head(s)>>) \o replace_quote(Tail(s))

\* A faulty variant of Literal.to_sql: the quotes of the value are not doubled.
Literal_to_sql_raw(value) ==
    IF value.kind = "str" THEN <<"'">> \o value.chars \o <<"'">>
    ELSE IF value.kind = "none" THEN <<"NULL">>
    ELSE IF value.kind = "bool" THEN (IF value.chars = <<"True">> THEN <<"TRUE">> ELSE <<"FALSE">>)
    ELSE value.chars

\* Literal.to_sql
Literal_to_sql(value) ==
    IF value.kind = "str" THEN <<"'">> \o replace_quote(value.chars) \o <<"'">>
    ELSE IF value.kind = "none" THEN <<"NULL">>
    ELSE IF value.kind = "bool" THEN (IF value.chars = <<"True">> THEN <<"TRUE">> ELSE <<"FALSE">>)
    ELSE value.chars

\* ColumnRef.to_sql: table.column [AS alias]
ColumnRef(column, table, alias) == [column |-> column, table |-> table, alias |-> alias]
ColumnRef_to_sql(c) ==
    (IF IsSome(c.table) THEN <<The(c.table), ".">> ELSE <<>>)
    \o <<c.column>>
    \o (IF IsSome(c.alias) THEN <<" AS ", The(c.alias)>> ELSE <<>>)

\* A faulty variant of str.join: the parts are not separated.
RECURSIVE join_tight(_, _)
join_tight(sep, parts) ==
    IF parts = <<>> THEN <<>> ELSE parts[1] \o join_tight(sep, Tail(parts))

\* ', '.join(parts)
RECURSIVE join(_, _)
join(sep, parts) ==
    IF parts = <<>> THEN <<>>
    ELSE IF Len(parts) = 1 THEN parts[1]
    ELSE parts[1] \o <<sep>> \o join(sep, Tail(parts))

\* BinaryExpr: right is a list of Literal values (is_list) or one value
BinaryExpr(left, operator, right_list, is_list) ==
    [left |-> left, operator |-> operator, right |-> right_list, is_list |-> is_list]

\* BinaryExpr.to_sql
BinaryExpr_to_sql(e) ==
    LET left_sql == ColumnRef_to_sql(e.left)
        right_sql ==
            IF e.is_list
            THEN <<"(">> \o join(", ", [i \in 1..Len(e.right) |-> Literal_to_sql(e.right[i])]) \o <<")">>
            ELSE Literal_to_sql(e.right[1])
    IN left_sql \o <<" ", e.operator, " ">> \o right_sql

\* WhereClause.to_sql (condition is a list: AND them together)
WhereClause_to_sql(conditions) ==
    <<"WHERE ">> \o join(" AND ", [i \in 1..Len(conditions) |-> BinaryExpr_to_sql(conditions[i])])

----------------------------------------------------------------------------
(* semantic_layer.py: the catalog.  The configuration file is data of the  *)
(* deployment; the model loads one with two metrics, one of which has a    *)
(* baked-in filter, one dimension and one business-term synonym.           *)

\* SemanticLayer._load_config: config['metrics'], config['dimensions'] and
\* config['business_terms'].
\* The sql template "SUM(net_value)" is [fn |-> "SUM", arg |-> "net_value"],
\* the text before "(" and the text between the parentheses.  A configured
\* filter string "col = val" is [eq |-> TRUE, col, val]; a string without
\* '=' has eq = FALSE.
config ==
    [metrics |->
        [secondary_sales_value |->
            [sql |-> [fn |-> "SUM", arg |-> "net_value"], table |-> "fact_secondary_sales",
             filters |-> <<[eq |-> TRUE, col |-> "return_flag", val |-> "false"]>>],
         secondary_sales_volume |->
            [sql |-> [fn |-> "SUM", arg |-> "quantity"], table |-> "fact_secondary_sales",
             filters |-> <<>>]],
     dimensions |-> [product |-> [table |-> "dim_product", key |-> "product_key"]],
     business_terms |-> [sales |-> "secondary_sales_value"]]

\* SemanticLayer._parse_metrics: name, sql, table (no filters are read)
metrics == [n \in DOMAIN config.metrics |->
               [name |-> n, sql |-> config.metrics[n].sql, table |-> config.metrics[n].table]]

\* The dict get_metric returns; filters is None when the dict has no
\* 'filters' key.
MetricDict(m, filters) == [name |-> m.name, sql |-> m.sql, table |-> m.table, filters |-> filters]

\* SemanticLayer.get_metric
get_metric(metric_name) ==
    IF metric_name \in DOMAIN metrics
    THEN Some(MetricDict(metrics[metric_name], None))
    ELSE IF /\ metric_name \in DOMAIN config.business_terms
            /\ config.business_terms[metric_name] \in DOMAIN metrics
    THEN Some(MetricDict(metrics[config.business_terms[metric_name]], None))
    ELSE IF metric_name \in DOMAIN config.metrics
    THEN Some([name |-> metric_name, sql |-> config.metrics[metric_name].sql,
               table |-> config.metrics[metric_name].table,
               filters |-> Some(config.metrics[metric_name].filters)])
    ELSE None

\* SemanticLayer._parse_dimensions: self.dimensions
semantic_layer_dimensions == config.dimensions

\* SemanticLayer.get_dimension: Optional[Dimension]
get_dimension(dim_name) ==
    IF dim_name \in DOMAIN semantic_layer_dimensions THEN Some(semantic_layer_dimensions[dim_name])
    ELSE IF /\ dim_name \in DOMAIN config.business_terms
            /\ config.business_terms[dim_name] \in DOMAIN semantic_layer_dimensions
    THEN Some(semantic_layer_dimensions[config.business_terms[dim_name]])
    ELSE None

----------------------------------------------------------------------------
(* query_builder.py: ASTQueryBuilder *)

\* the dimension_mapping table of _resolve_dimension_attribute
dimension_mapping ==
    [date |-> "d.date", year |-> "d.year", quarter |-> "d.quarter", month |-> "d.month",
     month_name |-> "d.month_name", week |-> "d.week", day_name |-> "d.day_name",
     fiscal_year |-> "d.fiscal_year", fiscal_quarter |-> "d.fiscal_quarter",
     fiscal_week |-> "d.fiscal_week", season |-> "d.season",
     brand_name |-> "p.brand_name", brand_code |-> "p.brand_code",
     category_name |-> "p.category_name", sku_name |-> "p.sku_name",
     sku_code |-> "p.sku_code", pack_size |-> "p.pack_size",
     state_name |-> "g.state_name", zone_name |-> "g.zone_name",
     district_name |-> "g.district_name", town_name |-> "g.town_name",
     outlet_name |-> "g.outlet_name",
     distributor_name |-> "c.distributor_name", retailer_name |-> "c.retailer_name",
     outlet_type |-> "c.outlet_type",
     channel_name |-> "ch.channel_name"]

\* ASTQueryBuilder._resolve_dimension_attribute: dimension_mapping.get(dim_name)
resolve_dimension_attribute(dim_name) ==
    IF dim_name \in DOMAIN dimension_mapping THEN Some(dimension_mapping[dim_name]) ELSE None

\* The outcome of a call: a returned value, or a raised exception.
Return(v) == [raised |-> FALSE, value |-> v]
Raise(e) == [raised |-> TRUE, value |-> <<e>>]

\* schemas.Filter
Filter(dimension, operator, values) ==
    [dimension |-> dimension, operator |-> operator, values |-> values]

\* ASTQueryBuilder._build_filter_condition: Optional[BinaryExpr]; values[0]
\* of an empty list raises IndexError
build_filter_condition(f) ==
    LET col_name == resolve_dimension_attribute(f.dimension) IN
    IF IsNone(col_name) THEN Return(None)
    ELSE IF f.operator = "IN"
    THEN Return(Some(BinaryExpr(ColumnRef(The(col_name), None, None), "IN", f.values, TRUE)))
    ELSE IF f.values = <<>> THEN Raise("IndexError")
    ELSE Return(Some(BinaryExpr(ColumnRef(The(col_name), None, None), f.operator,
                                <<f.values[1]>>, FALSE)))

\* the metric-level filters of _build_where: "col = val" with the value
\* coerced to a bool or unquoted
metric_filter_conditions(metric) ==
    LET metric_filters == IF IsSome(metric.filters) THEN The(metric.filters) ELSE <<>>
        usable == SelectSeq(metric_filters, LAMBDA s : s.eq)
        coerce(val) == IF val \in {"true", "True", "TRUE"} THEN BoolValue(TRUE)
                       ELSE IF val \in {"false", "False", "FALSE"} THEN BoolValue(FALSE)
                       ELSE StrValue(<<val>>)
    IN [i \in 1..Len(usable) |->
            BinaryExpr(ColumnRef(usable[i].col, Some("f"), None), "=",
                       <<coerce(usable[i].val)>>, FALSE)]

\* the user-filter loop of _build_where: one condition per filter whose
\* _build_filter_condition is not None
RECURSIVE filter_conditions(_)
filter_conditions(filters) ==
    IF filters = <<>> THEN Return(<<>>)
    ELSE LET first == build_filter_condition(Head(filters))
             rest == filter_conditions(Tail(filters))
         IN IF first.raised THEN first
            ELSE IF rest.raised THEN rest
            ELSE Return(first.value \o rest.value)

\* ASTQueryBuilder._build_time_filter: always None
build_time_filter(time_context) == None

\* ASTQueryBuilder._build_where: Optional[WhereClause], the list of conditions
build_where(filters, time_context, metric) ==
    LET user == filter_conditions(filters) IN
    IF user.raised THEN user
    ELSE LET conditions == metric_filter_conditions(metric) \o user.value
                           \o build_time_filter(time_context)
         IN IF conditions # <<>> THEN Return(Some(conditions)) ELSE Return(None)

----------------------------------------------------------------------------
(* Reading SQL text back: the string-literal rule of the SQL lexer.  A     *)
(* quote opens a literal; inside a literal two quotes in a row are one     *)
(* quote of the value and a single quote closes the literal.               *)

RECURSIVE lex(_, _, _, _)
lex(text, inside, cur, toks) ==
    IF text = <<>> THEN [ok |-> ~inside, toks |-> toks]
    ELSE IF ~inside
    THEN IF Head(text) = "'"
         THEN lex(Tail(text), TRUE, <<>>, toks)
         ELSE lex(Tail(text), FALSE, <<>>, Append(toks, [lit |-> FALSE, text |-> <<Head(text)>>]))
    ELSE IF Head(text) = "'"
    THEN IF Len(text) >= 2 /\ text[2] = "'"
         THEN lex(Tail(Tail(text)), TRUE, Append(cur, "'"), toks)
         ELSE lex(Tail(text), FALSE, <<>>, Append(toks, [lit |-> TRUE, text |-> cur]))
    ELSE lex(Tail(text), TRUE, Append(cur, Head(text)), toks)

Lex(text) == lex(text, FALSE, <<>>, <<>>)

\* the values of the literals of a lexed text, in order
LiteralsOf(toks) ==
    LET lits == SelectSeq(toks, LAMBDA k : k.lit) IN [i \in 1..Len(lits) |-> lits[i].text]
\* the units of a lexed text that are outside every literal
OutsideOf(toks) ==
    LET out == SelectSeq(toks, LAMBDA k : ~k.lit) IN [i \in 1..Len(out) |-> out[i].text[1]]

\* Un-escaping as a reader of the literal does it: strip the outer quotes,
\* then replace each doubled quote by one quote.
RECURSIVE undouble(_)
undouble(s) ==
    IF s = <<>> THEN <<>>
    ELSE IF Len(s) >= 2 /\ s[1] = "'" /\ s[2] = "'" THEN <<"'">> \o undouble(Tail(Tail(s)))
    ELSE <<Head(s)>> \o undouble(Tail(s))

Unescape(text) == undouble(SubSeq(text, 2, Len(text) - 1))

----------------------------------------------------------------------------
(* The idle values of the variables a specification does not use.          *)

LiteralIdle == literal = None /\ filter_obj = None /\ where = None /\ sql = <<>>
PatternIdle == heap = <<>> /\ arg = 0 /\ returned = <<>> /\ applied = "" /\ query_ast = None
PipelineIdle ==
    /\ app = "" /\ current_user = None /\ user_context = None
    /\ semantic_query = None /\ errors = <<>>
    /\ secured_query = None /\ queries = <<>> /\ results = <<>> /\ response = None
AnalysisIdle == trend_data = <<>> /\ trend_analysis = None
    /\ trace = <<>>

----------------------------------------------------------------------------
(* SpecLiteral: one Literal is constructed and rendered.                   *)

LiteralValues ==
    {StrValue(s) : s \in StringsUpTo(MaxLen)}
    \cup {NoneValue, BoolValue(TRUE), BoolValue(FALSE), NumValue(7)}

InitLiteral ==
    /\ pc = "literal"
    /\ literal \in LiteralValues
    /\ sql = <<>>
    /\ filter_obj = None
    /\ where = None
    /\ PatternIdle
    /\ PipelineIdle
    /\ AnalysisIdle

\* Literal(value).to_sql()
RenderLiteral ==
    /\ pc = "literal"
    /\ sql' = Literal_to_sql(literal)
    /\ pc' = "rendered"
    /\ UNCHANGED <<literal, filter_obj, where>>
    /\ UNCHANGED patternVars
    /\ UNCHANGED pipelineVars
    /\ UNCHANGED analysisVars

NextLiteral == RenderLiteral

SpecLiteral == InitLiteral /\ [][NextLiteral]_vars

----------------------------------------------------------------------------
(* SpecFilter: the compiler builds and renders the WHERE clause of a query *)
(* with one user filter (ASTQueryBuilder._build_where, then to_sql).       *)

\* the operators schemas.Filter admits
Operators == {"=", "IN", "NOT IN", "BETWEEN", ">", "<", ">=", "<="}

\* one dimension the compiler resolves and one it does not
FilterDimensions == {"state_name", "so_code"}

FilterValueLists ==
    UNION {[1..k -> {StrValue(s) : s \in StringsUpTo(MaxValueLen)}] : k \in 0..MaxValues}

\* a filter on state names, one of which has an apostrophe
ScenarioFilters ==
    {Filter("state_name", op,
            <<StrValue(<<"Tamil Nadu">>), StrValue(<<"O", "'", "Brien County">>)>>) :
        op \in {"IN", "="}}

InitFilter ==
    /\ pc = "filter"
    /\ filter_obj \in {Filter(d, op, vs) :
                          d \in FilterDimensions, op \in Operators, vs \in FilterValueLists}
                      \cup ScenarioFilters
    /\ where = None
    /\ sql = <<>>
    /\ literal = None
    /\ PatternIdle
    /\ PipelineIdle
    /\ AnalysisIdle

\* the metric of the query being compiled
FilterMetric == The(get_metric("secondary_sales_value"))

\* _build_where returns; the WHERE clause, if any, is rendered
BuildWhere ==
    /\ pc = "filter"
    /\ LET built == build_where(<<filter_obj>>, None, FilterMetric) IN
       /\ ~built.raised
       /\ where' = built.value
       /\ sql' = IF IsSome(built.value) THEN WhereClause_to_sql(The(built.value)) ELSE <<>>
    /\ pc' = "built"
    /\ UNCHANGED <<filter_obj, literal>>
    /\ UNCHANGED patternVars
    /\ UNCHANGED pipelineVars
    /\ UNCHANGED analysisVars

\* _build_filter_condition raises (values[0] of an empty list)
BuildWhereRaises ==
    /\ pc = "filter"
    /\ build_where(<<filter_obj>>, None, FilterMetric).raised
    /\ pc' = "failed"
    /\ UNCHANGED <<filter_obj, where, sql, literal>>
    /\ UNCHANGED patternVars
    /\ UNCHANGED pipelineVars
    /\ UNCHANGED analysisVars

NextFilter == BuildWhere \/ BuildWhereRaises

SpecFilter == InitFilter /\ [][NextFilter]_vars

----------------------------------------------------------------------------
(* Literal escaping and injection resistance *)

\* the values of a filter that _build_filter_condition renders: all of them
\* for IN, the first one for every other operator
RenderedValues(f) ==
    IF f.operator = "IN" THEN [i \in 1..Len(f.values) |-> f.values[i].chars]
    ELSE <<f.values[1].chars>>

\* C1: in the WHERE clause built for a filter whose dimension resolves, the
\* text lexes completely (no literal is left open), its literals are, in
\* order, exactly the filter's rendered values, and no unit outside the
\* literals comes from a value.
C1_InjectionResistance ==
    (pc = "built" /\ IsSome(resolve_dimension_attribute(filter_obj.dimension)))
    => /\ IsSome(where)
       /\ LET r == Lex(sql) IN
          /\ r.ok
          /\ LiteralsOf(r.toks) = RenderedValues(filter_obj)
          /\ \A i \in 1..Len(OutsideOf(r.toks)) : OutsideOf(r.toks)[i] \notin Alphabet

\* a WHERE clause was built for an IN filter whose first value is
\* '; DROP TABLE x; --
C1_Witness ==
    /\ pc = "built"
    /\ filter_obj.dimension = "state_name"
    /\ filter_obj.operator = "IN"
    /\ Len(filter_obj.values) = 2
    /\ filter_obj.values[1].chars = <<"'", "; DROP TABLE x; --">>
    /\ sql = <<"WHERE ", "g.state_name", " ", "IN", " ", "(",
               "'", "'", "'", "; DROP TABLE x; --", "'", ", ",
               "'">> \o replace_quote(filter_obj.values[2].chars) \o <<"'", ")">>

\* C2: a rendered string literal reads back as one SQL literal whose value
\* is the string, un-escaping the text yields the string, and no other
\* string renders to the same text.
C2_LiteralRoundTrip ==
    (pc = "rendered" /\ literal.kind = "str")
    => /\ Lex(sql) = [ok |-> TRUE, toks |-> <<[lit |-> TRUE, text |-> literal.chars]>>]
       /\ Head(sql) = "'" /\ sql[Len(sql)] = "'" /\ Len(sql) >= 2
       /\ Unescape(sql) = literal.chars
       /\ \A s \in StringsUpTo(MaxLen) :
              s # literal.chars => Literal_to_sql(StrValue(s)) # sql

\* a string with two quotes in a row and a quote-free run was rendered
C2_Witness ==
    /\ pc = "rendered"
    /\ literal = StrValue(<<"'", "'", "; DROP TABLE x; --">>)
    /\ sql = <<"'", "'", "'", "'", "'", "; DROP TABLE x; --", "'">>

\* the empty string was rendered as two quotes
C2_WitnessEmpty == pc = "rendered" /\ literal = StrValue(<<>>) /\ sql = <<"'", "'">>

----------------------------------------------------------------------------
(* schemas.py: SemanticQuery and its parts *)

IntentType == {"trend", "comparison", "ranking", "diagnostic", "snapshot"}

MetricRequest(primary_metric, secondary_metrics, metric_variant) ==
    [primary_metric |-> primary_metric, secondary_metrics |-> secondary_metrics,
     metric_variant |-> metric_variant]
Dimensionality(group_by) == [group_by |-> group_by]
TimeContext(window, grain) == [window |-> window, grain |-> grain]
Comparison(type, baseline, metric_variant) ==
    [type |-> type, baseline |-> baseline, metric_variant |-> metric_variant]
Diagnostics(enabled, diagnostic_type, dimensions, threshold) ==
    [enabled |-> enabled, diagnostic_type |-> diagnostic_type,
     dimensions |-> dimensions, threshold |-> threshold]
\* limit is Optional[int]
Sorting(order_by, direction, limit) ==
    [order_by |-> order_by, direction |-> direction, limit |-> limit]

SemanticQuery(intent, metric_request, dimensionality, time_context, filters, comparison, diagnostics, sorting) ==
    [intent |-> intent, metric_request |-> metric_request,
     dimensionality |-> dimensionality, time_context |-> time_context,
     filters |-> filters, comparison |-> comparison, diagnostics |-> diagnostics,
     sorting |-> sorting]

\* Python truth of an Optional[int]: None and 0 are false
Truthy(limit) == IsSome(limit) /\ The(limit) # 0

\* list.insert(0, x)
insert0(list, x) == <<x>> \o list

\* x in list
In(x, list) == \E i \in 1..Len(list) : list[i] = x

----------------------------------------------------------------------------
(* query_patterns.py.  Objects live in a heap (a sequence of SemanticQuery *)
(* values indexed by reference); optimize takes the reference of its       *)
(* argument and yields the heap after the call and the reference returned. *)

\* a faulty variant of deepcopy: the same object is returned
deepcopy_alias(h, r) == [heap |-> h, ref |-> r]

\* copy.deepcopy: a new object with the same value
deepcopy(h, r) == [heap |-> Append(h, h[r]), ref |-> Len(h) + 1]

\* SnapshotPattern.optimize: returns its argument
SnapshotPattern_optimize(h, r) == [heap |-> h, ref |-> r]

\* a faulty variant of the list below: month_name is missing
time_dimensions_short ==
    <<"date", "week", "month", "quarter", "year",
      "fiscal_week", "fiscal_month", "fiscal_quarter", "fiscal_year">>

\* TrendPattern.optimize: time_dimensions
time_dimensions ==
    <<"date", "week", "month", "month_name", "quarter", "year",
      "fiscal_week", "fiscal_month", "fiscal_quarter", "fiscal_year">>

\* next((dim for dim in group_by if dim in time_dimensions), None)
RECURSIVE first_time_dim(_)
first_time_dim(group_by) ==
    IF group_by = <<>> THEN None
    ELSE IF In(Head(group_by), time_dimensions) THEN Some(Head(group_by))
    ELSE first_time_dim(Tail(group_by))

\* TrendPattern.optimize, the changes made to the copy
TrendPattern_changes(q) ==
    LET has_time_dim == \E i \in 1..Len(time_dimensions) :
                            In(time_dimensions[i], q.dimensionality.group_by)
        grain == q.time_context.grain
        inserted == IF grain = "week" THEN "week"
                    ELSE IF grain = "month" THEN "month_name"
                    ELSE IF grain = "quarter" THEN "quarter"
                    ELSE IF grain = "year" THEN "year"
                    ELSE "date"
        group_by == IF ~has_time_dim THEN insert0(q.dimensionality.group_by, inserted)
                    ELSE q.dimensionality.group_by
        time_dim == first_time_dim(group_by)
        sorting == IF IsSome(q.sorting) THEN q.sorting
                   ELSE IF IsSome(time_dim) THEN Some(Sorting(The(time_dim), "ASC", None))
                   ELSE q.sorting
    IN [q EXCEPT !.dimensionality.group_by = group_by, !.sorting = sorting]

\* TrendPattern.optimize
TrendPattern_optimize(h, r) ==
    LET c == deepcopy(h, r) IN
    [heap |-> [c.heap EXCEPT ![c.ref] = TrendPattern_changes(c.heap[c.ref])], ref |-> c.ref]

\* word in window.lower(), for the windows of the validator's vocabulary
WindowHas(window, word) ==
    \/ word = "month" /\ window \in {"this_month", "last_month"}
    \/ word = "quarter" /\ window \in {"this_quarter", "last_quarter"}
    \/ word = "year" /\ window \in {"this_year", "last_year"}

\* ComparisonPattern.optimize, the changes made to the copy
ComparisonPattern_changes(q) ==
    LET window == q.time_context.window
        baseline == IF WindowHas(window, "month") THEN "last_month"
                    ELSE IF WindowHas(window, "quarter") THEN "last_quarter"
                    ELSE IF WindowHas(window, "year") THEN "last_year"
                    ELSE "previous_period"
        comparison == IF IsNone(q.comparison)
                      THEN Some(Comparison("period", baseline, "growth"))
                      ELSE q.comparison
        variant == IF q.metric_request.metric_variant = "absolute" THEN "growth"
                   ELSE q.metric_request.metric_variant
    IN [q EXCEPT !.comparison = comparison, !.metric_request.metric_variant = variant]

\* ComparisonPattern.optimize
ComparisonPattern_optimize(h, r) ==
    LET c == deepcopy(h, r) IN
    [heap |-> [c.heap EXCEPT ![c.ref] = ComparisonPattern_changes(c.heap[c.ref])], ref |-> c.ref]

\* RankingPattern.optimize, the changes made to the copy
RankingPattern_changes(q) ==
    IF IsNone(q.sorting)
    THEN [q EXCEPT !.sorting = Some(Sorting(q.metric_request.primary_metric, "DESC", Some(10)))]
    ELSE LET s == The(q.sorting) IN
         IF ~Truthy(s.limit) THEN [q EXCEPT !.sorting = Some([s EXCEPT !.limit = Some(10)])]
         ELSE IF The(s.limit) > 100 THEN [q EXCEPT !.sorting = Some([s EXCEPT !.limit = Some(100)])]
         ELSE q

\* RankingPattern.optimize
RankingPattern_optimize(h, r) ==
    LET c == deepcopy(h, r) IN
    [heap |-> [c.heap EXCEPT ![c.ref] = RankingPattern_changes(c.heap[c.ref])], ref |-> c.ref]

\* the default dimensions of a diagnostic analysis
default_dimensions == <<"brand_name", "state_name", "channel_name">>

\* DiagnosticPattern.optimize, the changes made to the copy
DiagnosticPattern_changes(q) ==
    IF IsNone(q.diagnostics)
    THEN [q EXCEPT !.diagnostics = Some(Diagnostics(TRUE, "contribution", default_dimensions, "0.05"))]
    ELSE LET g == The(q.diagnostics)
             dims == IF g.dimensions = <<>> THEN default_dimensions ELSE g.dimensions
         IN [q EXCEPT !.diagnostics = Some([g EXCEPT !.enabled = TRUE, !.dimensions = dims])]

\* DiagnosticPattern.optimize
DiagnosticPattern_optimize(h, r) ==
    LET c == deepcopy(h, r) IN
    [heap |-> [c.heap EXCEPT ![c.ref] = DiagnosticPattern_changes(c.heap[c.ref])], ref |-> c.ref]

\* PatternRegistry.patterns, in order
patterns == <<"TrendPattern", "ComparisonPattern", "RankingPattern",
              "DiagnosticPattern", "SnapshotPattern">>

\* QueryPattern.matches
matches(pattern, q) ==
    \/ pattern = "TrendPattern" /\ q.intent = "trend"
    \/ pattern = "ComparisonPattern" /\ q.intent = "comparison"
    \/ pattern = "RankingPattern" /\ q.intent = "ranking"
    \/ pattern = "DiagnosticPattern" /\ q.intent = "diagnostic"
    \/ pattern = "SnapshotPattern" /\ q.intent = "snapshot"

\* QueryPattern.optimize, dispatched on the pattern's class
optimize(pattern, h, r) ==
    IF pattern = "TrendPattern" THEN TrendPattern_optimize(h, r)
    ELSE IF pattern = "ComparisonPattern" THEN ComparisonPattern_optimize(h, r)
    ELSE IF pattern = "RankingPattern" THEN RankingPattern_optimize(h, r)
    ELSE IF pattern = "DiagnosticPattern" THEN DiagnosticPattern_optimize(h, r)
    ELSE SnapshotPattern_optimize(h, r)

\* PatternRegistry.get_pattern: the first pattern that matches, else Snapshot
get_pattern(q) ==
    IF \E i \in 1..Len(patterns) : matches(patterns[i], q)
    THEN patterns[CHOOSE i \in 1..Len(patterns) :
                      /\ matches(patterns[i], q)
                      /\ \A j \in 1..(i - 1) : ~matches(patterns[j], q)]
    ELSE "SnapshotPattern"

\* PatternRegistry.optimize_query
optimize_query(h, r) == optimize(get_pattern(h[r]), h, r)

----------------------------------------------------------------------------
(* query_builder.py: ASTQueryBuilder.build_query.  A node of the tree is   *)
(* [node |-> its class, expr |-> its fields]; a string used as a node has  *)
(* class "str".                                                            *)

AggregateExpr(function, expression, alias) ==
    [function |-> function, expression |-> expression, alias |-> alias]
Node(class, fields) == [node |-> class, expr |-> fields]

\* the dimension columns of _build_select / _build_group_by: one ColumnRef
\* per dimension that resolves, in group_by order
RECURSIVE dimension_columns(_, _)
dimension_columns(group_by, with_alias) ==
    IF group_by = <<>> THEN <<>>
    ELSE LET col_name == resolve_dimension_attribute(Head(group_by))
             rest == dimension_columns(Tail(group_by), with_alias)
         IN IF IsSome(col_name)
            THEN <<ColumnRef(The(col_name), None,
                             IF with_alias THEN Some(Head(group_by)) ELSE None)>> \o rest
            ELSE rest

\* the secondary metrics of _build_select: "(sql) AS name" for each one the
\* catalog knows
RECURSIVE secondary_expressions(_)
secondary_expressions(names) ==
    IF names = <<>> THEN <<>>
    ELSE LET sec_metric == get_metric(Head(names))
             rest == secondary_expressions(Tail(names))
         IN IF IsSome(sec_metric)
            THEN <<Node("str", [sql |-> The(sec_metric).sql, alias |-> Head(names)])>> \o rest
            ELSE rest

\* ASTQueryBuilder._build_select
build_select(q, metric) ==
    LET dims == dimension_columns(q.dimensionality.group_by, TRUE)
        primary == IF metric.sql.fn \in {"SUM", "COUNT", "AVG"}
                   THEN Node("AggregateExpr",
                             AggregateExpr(metric.sql.fn, metric.sql.arg,
                                           Some(q.metric_request.primary_metric)))
                   ELSE Node("str", [sql |-> metric.sql,
                                     alias |-> q.metric_request.primary_metric])
    IN [i \in 1..Len(dims) |-> Node("ColumnRef", dims[i])]
       \o <<primary>>
       \o secondary_expressions(q.metric_request.secondary_metrics)

\* ASTQueryBuilder._build_from
build_from(metric) == [table |-> metric.table, alias |-> Some("f")]

\* the dimension_tables table of _build_joins
dimension_tables ==
    [date |-> "dim_date", year |-> "dim_date", quarter |-> "dim_date", month |-> "dim_date",
     month_name |-> "dim_date", week |-> "dim_date", day_name |-> "dim_date",
     fiscal_year |-> "dim_date", fiscal_quarter |-> "dim_date", fiscal_week |-> "dim_date",
     brand_name |-> "dim_product", brand_code |-> "dim_product",
     category_name |-> "dim_product", sku_name |-> "dim_product", sku_code |-> "dim_product",
     state_name |-> "dim_geography", zone_name |-> "dim_geography",
     district_name |-> "dim_geography", town_name |-> "dim_geography",
     outlet_name |-> "dim_geography",
     distributor_name |-> "dim_customer", retailer_name |-> "dim_customer",
     outlet_type |-> "dim_customer",
     channel_name |-> "dim_channel"]

\* the join_conditions and table_aliases tables of _create_dimension_join
join_keys ==
    [dim_date |-> "date_key", dim_product |-> "product_key",
     dim_geography |-> "geography_key", dim_customer |-> "customer_key",
     dim_channel |-> "channel_key"]
table_aliases ==
    [dim_date |-> "d", dim_product |-> "p", dim_geography |-> "g",
     dim_customer |-> "c", dim_channel |-> "ch"]

\* ASTQueryBuilder._create_dimension_join: Optional[JoinClause]
create_dimension_join(table) ==
    IF table \in DOMAIN join_keys /\ table \in DOMAIN table_aliases
    THEN Some([join_type |-> "LEFT", table |-> table, alias |-> Some(table_aliases[table]),
               on_condition |->
                   [left |-> ColumnRef(join_keys[table], Some("f"), None),
                    operator |-> "=",
                    right |-> ColumnRef(join_keys[table], Some(table_aliases[table]), None)]])
    ELSE None

\* the loop of _build_joins over dimensions_used, with the tables joined so far
RECURSIVE joins_of(_, _)
joins_of(dimensions_used, joined_tables) ==
    IF dimensions_used = <<>> THEN <<>>
    ELSE LET dim == Head(dimensions_used)
             known == dim \in DOMAIN dimension_tables
             new_join == IF known THEN create_dimension_join(dimension_tables[dim]) ELSE None
         IN IF known /\ dimension_tables[dim] \notin joined_tables /\ IsSome(new_join)
            THEN new_join \o joins_of(Tail(dimensions_used),
                                  joined_tables \cup {dimension_tables[dim]})
            ELSE joins_of(Tail(dimensions_used), joined_tables)

\* ASTQueryBuilder._build_joins
build_joins(q) == joins_of(q.dimensionality.group_by, {})

\* A faulty variant of _build_group_by: the columns are listed last to first.
build_group_by_reversed(q) ==
    IF q.dimensionality.group_by = <<>> THEN None
    ELSE LET columns == dimension_columns(q.dimensionality.group_by, FALSE) IN
         IF columns # <<>> THEN Some([i \in 1..Len(columns) |-> columns[Len(columns) + 1 - i]])
         ELSE None

\* ASTQueryBuilder._build_group_by: Optional[GroupByClause]
build_group_by(q) ==
    IF q.dimensionality.group_by = <<>> THEN None
    ELSE LET columns == dimension_columns(q.dimensionality.group_by, FALSE) IN
         IF columns # <<>> THEN Some(columns) ELSE None

\* ASTQueryBuilder._build_order_by: Optional[OrderByClause], a list of
\* (column, direction)
build_order_by(q) ==
    IF IsNone(q.sorting) THEN None
    ELSE LET order_by == The(q.sorting).order_by
             direction == The(q.sorting).direction
         IN IF In(order_by, q.dimensionality.group_by)
            THEN LET col == resolve_dimension_attribute(order_by) IN
                 IF IsSome(col)
                 THEN Some(<<[column |-> Node("ColumnRef", ColumnRef(The(col), None, None)),
                              direction |-> direction]>>)
                 ELSE None
            ELSE Some(<<[column |-> Node("str", order_by), direction |-> direction]>>)

\* ASTQueryBuilder._build_limit: Optional[LimitClause]
build_limit(q) ==
    IF IsSome(q.sorting) /\ Truthy(The(q.sorting).limit)
    THEN Some([limit |-> The(The(q.sorting).limit)])
    ELSE None

\* Query.validate, the errors that are not warnings
critical_errors(select) ==
    IF select = <<>> THEN <<"SELECT clause must have at least one expression">> ELSE <<>>

\* ASTQueryBuilder.build_query
build_query(q) ==
    LET metric == get_metric(q.metric_request.primary_metric) IN
    IF IsNone(metric) THEN Raise("ValueError")
    ELSE LET select == build_select(q, The(metric))
             built_where == build_where(q.filters, q.time_context, The(metric))
         IN IF built_where.raised THEN built_where
            ELSE IF critical_errors(select) # <<>> THEN Raise("ValueError")
            ELSE Return([select |-> select,
                         from_clause |-> build_from(The(metric)),
                         joins |-> build_joins(q),
                         where |-> built_where.value,
                         group_by |-> build_group_by(q),
                         order_by |-> build_order_by(q),
                         limit |-> build_limit(q)])

----------------------------------------------------------------------------
(* SpecPattern: a SemanticQuery is optimized by a pattern (once, and again *)
(* with the result), or compiled by SemanticLayer.semantic_query_to_sql.   *)

\* most dimensions in group_by
MaxGroupBy == 2

\* a dimension that is no time dimension, the time dimension the month
\* grain inserts, and a time dimension of the pattern
PatternDimensions == {"brand_name", "month_name", "fiscal_month"}
GroupBys == UNION {[1..k -> PatternDimensions] : k \in 0..MaxGroupBy}
Grains == {"day", "week", "month", "quarter", "year"}
Windows == {"last_4_weeks", "this_month", "last_quarter", "this_year"}
Limits == {None} \cup {Some(n) : n \in {-1, 0, 5, 100, 101}}

BaseQuery(intent) ==
    SemanticQuery(intent, MetricRequest("secondary_sales_value", <<>>, "absolute"),
                  Dimensionality(<<>>), TimeContext("last_4_weeks", "day"),
                  <<>>, None, None, None)

\* queries that differ in what they group by and in their grain
GroupedQueries ==
    {[BaseQuery(i) EXCEPT !.dimensionality.group_by = g, !.time_context.grain = gr,
                          !.sorting = s] :
        i \in IntentType, g \in GroupBys, gr \in Grains,
        s \in {None, Some(Sorting("brand_name", "DESC", None))}}

\* queries that differ in their sorting
SortedQueries ==
    {[BaseQuery(i) EXCEPT !.dimensionality.group_by = g,
                          !.sorting = Some(Sorting(ob, dir, lim))] :
        i \in IntentType, g \in {<<>>, <<"brand_name">>},
        ob \in {"secondary_sales_value", "brand_name"}, dir \in {"ASC", "DESC"},
        lim \in Limits}

\* queries that differ in window, comparison, metric variant and diagnostics
ConfiguredQueries ==
    {[BaseQuery(i) EXCEPT !.time_context.window = w, !.comparison = c,
                          !.metric_request.metric_variant = v, !.diagnostics = dg] :
        i \in IntentType, w \in Windows,
        c \in {None, Some(Comparison("peer", "last_year", "delta"))},
        v \in {"absolute", "delta"},
        dg \in {None, Some(Diagnostics(FALSE, "mix_shift", <<>>, "0.1")),
                Some(Diagnostics(TRUE, "contribution", <<"zone_name">>, "0.05"))}}

\* queries that differ in their metrics and filters
MetricQueries ==
    {[BaseQuery(i) EXCEPT !.metric_request.primary_metric = m,
                          !.metric_request.secondary_metrics = sec, !.filters = f] :
        i \in IntentType, m \in {"secondary_sales_value", "sales", "nonexistent_metric"},
        sec \in {<<>>, <<"secondary_sales_volume", "nonexistent_metric">>},
        f \in {<<>>, <<Filter("state_name", "=", <<StrValue(<<"Tamil Nadu">>)>>)>>}}

PatternQueries == GroupedQueries \cup SortedQueries \cup ConfiguredQueries \cup MetricQueries

InitPattern ==
    /\ pc = "start"
    /\ \E q \in PatternQueries : heap = <<q>>
    /\ arg = 1
    /\ returned = <<>>
    /\ applied = ""
    /\ query_ast = None
    /\ LiteralIdle
    /\ PipelineIdle
    /\ AnalysisIdle

\* pattern.optimize(semantic_query), for any of the five patterns
Optimize(pattern) ==
    /\ pc = "start"
    /\ LET out == optimize(pattern, heap, arg) IN
       /\ heap' = out.heap
       /\ returned' = Append(returned, out.ref)
    /\ applied' = pattern
    /\ pc' = "once"
    /\ UNCHANGED <<arg, query_ast>>
    /\ UNCHANGED literalVars
    /\ UNCHANGED pipelineVars
    /\ UNCHANGED analysisVars

\* PatternRegistry.optimize_query(semantic_query)
OptimizeQuery ==
    /\ pc = "start"
    /\ LET out == optimize_query(heap, arg) IN
       /\ heap' = out.heap
       /\ returned' = Append(returned, out.ref)
    /\ applied' = "registry"
    /\ pc' = "once"
    /\ UNCHANGED <<arg, query_ast>>
    /\ UNCHANGED literalVars
    /\ UNCHANGED pipelineVars
    /\ UNCHANGED analysisVars

\* the same optimization applied to the query the first call returned
OptimizeAgain ==
    /\ pc = "once"
    /\ LET out == IF applied = "registry" THEN optimize_query(heap, returned[1])
                  ELSE optimize(applied, heap, returned[1]) IN
       /\ heap' = out.heap
       /\ returned' = Append(returned, out.ref)
    /\ pc' = "twice"
    /\ UNCHANGED <<arg, applied, query_ast>>
    /\ UNCHANGED literalVars
    /\ UNCHANGED pipelineVars
    /\ UNCHANGED analysisVars

\* SemanticLayer.semantic_query_to_sql(semantic_query): optimize_query, then
\* build_query; an exception of the builder is raised again as ValueError
SemanticQueryToSql ==
    /\ pc = "start"
    /\ LET out == optimize_query(heap, arg)
           built == build_query(out.heap[out.ref]) IN
       /\ heap' = out.heap
       /\ returned' = Append(returned, out.ref)
       /\ query_ast' = IF built.raised THEN Raise("ValueError") ELSE built
       /\ pc' = IF built.raised THEN "failed" ELSE "compiled"
    /\ applied' = "registry"
    /\ UNCHANGED arg
    /\ UNCHANGED literalVars
    /\ UNCHANGED pipelineVars
    /\ UNCHANGED analysisVars

NextPattern ==
    \/ \E pattern \in {patterns[i] : i \in 1..Len(patterns)} : Optimize(pattern)
    \/ OptimizeQuery
    \/ OptimizeAgain
    \/ SemanticQueryToSql

SpecPattern == InitPattern /\ [][NextPattern]_vars

----------------------------------------------------------------------------
(* Properties of pattern optimization and of the compiled query *)

\* the query passed in, and the queries the calls returned
InputQuery == heap[arg]
FirstResult == heap[returned[1]]
SecondResult == heap[returned[2]]

\* C7: a trend query without sorting compiles to a query whose ORDER BY has
\* one key, the resolved column of the query's time dimension, ascending.
C7_TrendChronology ==
    (pc = "compiled" /\ InputQuery.intent = "trend" /\ IsNone(InputQuery.sorting))
    => LET time_dim == first_time_dim(FirstResult.dimensionality.group_by)
           order_by == query_ast.value.order_by
       IN /\ IsSome(time_dim)
          /\ IsSome(resolve_dimension_attribute(The(time_dim)))
          /\ IsSome(order_by)
          /\ The(order_by) =
                 <<[column |-> Node("ColumnRef",
                                    ColumnRef(The(resolve_dimension_attribute(The(time_dim))),
                                              None, None)),
                    direction |-> "ASC"]>>

\* a trend query grouped by fiscal_month was compiled without ORDER BY
C7_NoOrderBy ==
    /\ pc = "compiled"
    /\ InputQuery.intent = "trend" /\ IsNone(InputQuery.sorting)
    /\ InputQuery.dimensionality.group_by = <<"fiscal_month">>
    /\ FirstResult.sorting = Some(Sorting("fiscal_month", "ASC", None))
    /\ IsNone(query_ast.value.order_by)

\* C8: the query RankingPattern.optimize returns for a ranking query has
\* sorting set with a limit between 1 and 100.
C8_RankingBounds ==
    (pc = "once" /\ applied \in {"RankingPattern", "registry"} /\ InputQuery.intent = "ranking")
    => /\ IsSome(FirstResult.sorting)
       /\ IsSome(The(FirstResult.sorting).limit)
       /\ The(The(FirstResult.sorting).limit) >= 1
       /\ The(The(FirstResult.sorting).limit) <= 100

\* a ranking query with limit -1 was returned with limit -1
C8_NegativeLimit ==
    /\ pc = "once" /\ applied = "RankingPattern" /\ InputQuery.intent = "ranking"
    /\ IsSome(InputQuery.sorting) /\ The(InputQuery.sorting).limit = Some(-1)
    /\ The(FirstResult.sorting).limit = Some(-1)

\* C9: optimizing the result of an optimization again (by the same pattern,
\* or by the registry) returns a query equal to it field for field.
C9_PatternIdempotence ==
    pc = "twice" => SecondResult = FirstResult

\* the trend pattern inserted month_name into a group_by without a time
\* dimension, and the second call did not insert it again
C9_Witness ==
    /\ pc = "twice" /\ applied = "TrendPattern" /\ InputQuery.intent = "trend"
    /\ InputQuery.dimensionality.group_by = <<"brand_name">>
    /\ InputQuery.time_context.grain = "month"
    /\ FirstResult.dimensionality.group_by = <<"month_name", "brand_name">>
    /\ SecondResult.dimensionality.group_by = <<"month_name", "brand_name">>

\* the registry optimized a ranking query twice
C9_WitnessRegistry ==
    /\ pc = "twice" /\ applied = "registry" /\ InputQuery.intent = "ranking"
    /\ IsNone(InputQuery.sorting)
    /\ SecondResult.sorting = Some(Sorting("secondary_sales_value", "DESC", Some(10)))

\* C10: no call of optimize changes an object that existed before the call:
\* every field of the query passed in keeps its value.
C10_InputUnmodified ==
    [][\A r \in DOMAIN heap : r \in DOMAIN heap' /\ heap'[r] = heap[r]]_vars

\* a pattern returned a query that differs from the one passed in
C10_Witness ==
    /\ pc = "once" /\ applied = "DiagnosticPattern"
    /\ returned[1] # arg
    /\ IsNone(InputQuery.diagnostics)
    /\ FirstResult.diagnostics =
           Some(Diagnostics(TRUE, "contribution", default_dimensions, "0.05"))

\* the snapshot pattern returned the object passed in
C10_WitnessSnapshot ==
    pc = "once" /\ applied = "SnapshotPattern" /\ returned[1] = arg

----------------------------------------------------------------------------
(* validator.py: SemanticValidator.  An error is the fixed part of its     *)
(* message.                                                                *)

\* SemanticValidator._is_valid_dimension_attribute: known_attributes
known_attributes ==
    {"date", "year", "quarter", "month", "month_name", "week", "day_name",
     "fiscal_year", "fiscal_quarter", "fiscal_week", "season",
     "brand_name", "brand_code", "category_name", "sku_name", "sku_code", "pack_size",
     "state_name", "zone_name", "district_name", "town_name", "outlet_name",
     "distributor_name", "retailer_name", "outlet_type",
     "channel_name"}

is_valid_dimension_attribute(dim_name) == dim_name \in known_attributes

\* SemanticValidator.validate: valid_windows
valid_windows ==
    {"last_4_weeks", "last_6_weeks", "last_12_weeks", "mtd", "qtd", "ytd", "this_month",
     "last_month", "this_year", "last_year", "this_quarter", "last_quarter"}

\* SemanticValidator.validate: valid_operators
valid_operators == {"=", "IN", "NOT IN", "BETWEEN", ">", "<", ">=", "<="}

\* step 2 of validate: one error per unknown secondary metric
RECURSIVE secondary_metric_errors(_)
secondary_metric_errors(names) ==
    IF names = <<>> THEN <<>>
    ELSE (IF IsNone(get_metric(Head(names))) THEN <<"Unknown secondary metric">> ELSE <<>>)
         \o secondary_metric_errors(Tail(names))

\* step 3 of validate: one error per dimension that is neither a configured
\* dimension nor a known attribute
RECURSIVE dimension_errors(_)
dimension_errors(group_by) ==
    IF group_by = <<>> THEN <<>>
    ELSE (IF IsNone(get_dimension(Head(group_by))) /\ ~is_valid_dimension_attribute(Head(group_by))
          THEN <<"Unknown dimension">> ELSE <<>>)
         \o dimension_errors(Tail(group_by))

\* step 7 of validate: the errors of each filter, in order
RECURSIVE filter_errors(_)
filter_errors(filters) ==
    IF filters = <<>> THEN <<>>
    ELSE LET f == Head(filters) IN
         (IF ~is_valid_dimension_attribute(f.dimension)
          THEN <<"Invalid filter dimension">> ELSE <<>>)
         \o (IF f.values = <<>> THEN <<"Filter has no values">> ELSE <<>>)
         \o (IF f.operator \notin valid_operators THEN <<"Invalid filter operator">> ELSE <<>>)
         \o filter_errors(Tail(filters))

\* step 8 of validate
sorting_errors(q) ==
    IF IsNone(q.sorting) THEN <<>>
    ELSE LET s == The(q.sorting) IN
         (IF s.order_by # q.metric_request.primary_metric /\ ~In(s.order_by, q.dimensionality.group_by)
          THEN <<"Cannot sort by field not in SELECT clause">> ELSE <<>>)
         \o (IF Truthy(s.limit) /\ (The(s.limit) < 1 \/ The(s.limit) > 10000)
             THEN <<"Limit must be between 1 and 10000">> ELSE <<>>)

\* A faulty variant of step 5 of validate: the cap is one dimension higher.
too_many_dimensions_loose(group_by) == Len(group_by) > 5

\* step 5 of validate, the dimension cardinality check
too_many_dimensions(group_by) == Len(group_by) > 4

\* SemanticValidator.validate: the list of errors.  Step 4 tests
\* hasattr(metric, 'allowed_dimensions') on a dict, which is false.
validate(q) ==
    IF IsNone(get_metric(q.metric_request.primary_metric)) THEN <<"Unknown metric">>
    ELSE secondary_metric_errors(q.metric_request.secondary_metrics)
         \o dimension_errors(q.dimensionality.group_by)
         \o (IF too_many_dimensions(q.dimensionality.group_by)
             THEN <<"Too many dimensions">> ELSE <<>>)
         \o (IF q.time_context.window \notin valid_windows
             THEN <<"Invalid time window">> ELSE <<>>)
         \o filter_errors(q.filters)
         \o sorting_errors(q)

----------------------------------------------------------------------------
(* security/rls.py: UserContext and RowLevelSecurity.  A list of codes or  *)
(* names is a sequence of strings.                                         *)

UserContext(role, data_access_level, sales_hierarchy_level, territories, regions, states, so_codes, asm_codes, zsm_codes, nsm_codes) ==
    [role |-> role, data_access_level |-> data_access_level,
     sales_hierarchy_level |-> sales_hierarchy_level,
     territories |-> territories, regions |-> regions, states |-> states,
     so_codes |-> so_codes, asm_codes |-> asm_codes, zsm_codes |-> zsm_codes,
     nsm_codes |-> nsm_codes]

\* the filter apply_security appends: dimension IN values
security_filter(dimension, values) ==
    Filter(dimension, "IN", [i \in 1..Len(values) |-> StrValue(<<values[i]>>)])

\* RowLevelSecurity.apply_security, the filters appended to the copy
security_filters(user) ==
    LET level == user.sales_hierarchy_level IN
    IF IsSome(level) /\ The(level) = "SO" /\ user.so_codes # <<>>
    THEN <<security_filter("so_code", user.so_codes)>>
    ELSE IF IsSome(level) /\ The(level) = "ASM" /\ user.asm_codes # <<>>
    THEN <<security_filter("asm_code", user.asm_codes)>>
    ELSE IF IsSome(level) /\ The(level) = "ZSM" /\ user.zsm_codes # <<>>
    THEN <<security_filter("zsm_code", user.zsm_codes)>>
    ELSE IF IsSome(level) /\ The(level) = "NSM" /\ user.nsm_codes # <<>>
    THEN <<security_filter("nsm_code", user.nsm_codes)>>
    ELSE IF user.data_access_level = "state" /\ user.states # <<>>
    THEN <<security_filter("state_name", user.states)>>
    ELSE IF user.data_access_level = "region" /\ user.regions # <<>>
    THEN <<security_filter("zone_name", user.regions)>>
    ELSE IF user.data_access_level = "territory" /\ user.territories # <<>>
    THEN <<security_filter("district_name", user.territories)>>
    ELSE <<>>

\* a faulty variant of apply_security: the filters of the query are replaced
apply_security_replace(q, user) ==
    IF user.data_access_level = "national" \/ user.role = "admin" THEN q
    ELSE [q EXCEPT !.filters = security_filters(user)]

\* RowLevelSecurity.apply_security: the query returned
apply_security(q, user) ==
    IF user.data_access_level = "national" \/ user.role = "admin" THEN q
    ELSE [q EXCEPT !.filters = q.filters \o security_filters(user)]

\* RowLevelSecurity.get_user_context_from_role
get_user_context_from_role(role) ==
    IF role = "NSM"
    THEN UserContext(role, "national", Some("NSM"), <<>>, <<>>, <<>>, <<>>, <<>>, <<>>, <<"NSM01">>)
    ELSE IF role = "ZSM"
    THEN UserContext(role, "region", Some("ZSM"), <<>>, <<>>, <<>>, <<>>, <<>>, <<"ZSM01">>, <<>>)
    ELSE IF role = "ASM"
    THEN UserContext(role, "region", Some("ASM"), <<>>, <<>>, <<>>, <<>>, <<"ZSM01_ASM1">>, <<>>, <<>>)
    ELSE IF role = "SO"
    THEN UserContext(role, "territory", Some("SO"), <<>>, <<>>, <<>>, <<"ZSM01_ASM1_SO01">>, <<>>, <<>>, <<>>)
    ELSE IF role \in {"executive", "admin"}
    THEN UserContext(role, "national", None, <<>>, <<>>, <<>>, <<>>, <<>>, <<>>, <<>>)
    ELSE IF role = "manager"
    THEN UserContext(role, "region", None, <<>>, <<"North", "South">>, <<>>, <<>>, <<>>, <<>>, <<>>)
    ELSE IF role = "sales_rep"
    THEN UserContext(role, "territory", None, <<"NORTH_01", "NORTH_02">>, <<>>, <<>>, <<>>, <<>>, <<>>, <<>>)
    ELSE UserContext(role, "territory", None, <<>>, <<>>, <<>>, <<>>, <<>>, <<>>, <<>>)

----------------------------------------------------------------------------
(* orchestrator.py: QueryOrchestrator *)

\* QueryOrchestrator._get_time_dimension
get_time_dimension(q) ==
    LET grain == q.time_context.grain IN
    IF grain = "day" THEN "date"
    ELSE IF grain = "week" THEN "week"
    ELSE IF grain = "month" THEN "month_name"
    ELSE IF grain = "quarter" THEN "quarter"
    ELSE IF grain = "year" THEN "year"
    ELSE "week"

\* QueryOrchestrator._get_diagnostic_dimensions
get_diagnostic_dimensions(q) ==
    IF IsSome(q.diagnostics) /\ The(q.diagnostics).dimensions # <<>>
    THEN The(q.diagnostics).dimensions
    ELSE <<"brand_name", "state_name", "channel_name">>

\* _execute_diagnostic: the trend confirmation query
trend_query(q) ==
    [q EXCEPT !.intent = "trend",
              !.dimensionality.group_by = <<get_time_dimension(q)>>,
              !.sorting = Some(Sorting(get_time_dimension(q), "ASC", None))]

\* A faulty variant of the contribution query below: the filters of the
\* input are not carried over.
contrib_query_unfiltered(q, dim) ==
    [q EXCEPT !.intent = "ranking",
              !.dimensionality.group_by = <<dim>>,
              !.filters = <<>>,
              !.sorting = Some(Sorting(q.metric_request.primary_metric, "DESC", Some(10)))]

\* _execute_diagnostic: the contribution query of one dimension
contrib_query(q, dim) ==
    [q EXCEPT !.intent = "ranking",
              !.dimensionality.group_by = <<dim>>,
              !.sorting = Some(Sorting(q.metric_request.primary_metric, "DESC", Some(10)))]

\* _execute_diagnostic: the list of (name, query), all built before any of
\* them is executed
diagnostic_queries(q) ==
    LET dimensions_to_analyze == get_diagnostic_dimensions(q) IN
    <<[name |-> <<"trend_confirmation">>, query |-> trend_query(q)]>>
    \o [i \in 1..Len(dimensions_to_analyze) |->
            [name |-> <<"contribution", dimensions_to_analyze[i]>>,
             query |-> contrib_query(q, dimensions_to_analyze[i])]]

\* QueryOrchestrator.execute: the queries the call has to execute
queries_to_execute(q) ==
    IF q.intent = "diagnostic" THEN diagnostic_queries(q)
    ELSE <<[name |-> <<"single">>, query |-> q]>>

\* QueryOrchestrator._execute_single: build_query, then executor.execute,
\* which raises when the database fails; no exception is caught
execute_single(q, executor_ok) ==
    LET built == build_query(q) IN
    IF built.raised THEN built
    ELSE IF ~executor_ok THEN Raise("Exception")
    ELSE Return([query_type |-> "single", sql |-> built.value, filters |-> q.filters])

\* results[name] = value
dict_set(dict, name, value) ==
    IF \E i \in 1..Len(dict) : dict[i].name = name
    THEN [i \in 1..Len(dict) |-> IF dict[i].name = name
                                 THEN [name |-> name, value |-> value] ELSE dict[i]]
    ELSE Append(dict, [name |-> name, value |-> value])

\* a faulty variant of the loop body below: a failed sub-query is skipped
loop_body_swallow(dict, name, outcome) ==
    IF outcome.raised THEN Return(dict) ELSE Return(dict_set(dict, name, outcome.value))

\* the body of the loop of _execute_diagnostic:
\* results[name] = self._execute_single(query), an exception ends the call
loop_body(dict, name, outcome) ==
    IF outcome.raised THEN outcome ELSE Return(dict_set(dict, name, outcome.value))

\* the keys of the results dict
keys(dict) == [i \in 1..Len(dict) |-> dict[i].name]

----------------------------------------------------------------------------
(* frontend/app.py and frontend/app_with_auth.py: process_query *)

\* the JSON response of process_query; sub_queries, analysis and
\* total_queries (of metadata) are those of the orchestrator's result
Response(success, kind, error_list, sub_queries, analysis, total_queries) ==
    [success |-> success, kind |-> kind, errors |-> error_list,
     sub_queries |-> sub_queries, analysis |-> analysis, total_queries |-> total_queries]
ErrorResponse(kind) == Some(Response(FALSE, kind, <<>>, <<>>, None, None))

\* app.py: demo_user
demo_user == UserContext("analyst", "national", None, <<>>, <<>>, <<>>, <<>>, <<>>, <<>>, <<>>)

\* [x] if x else []
list_of(option) == IF IsSome(option) THEN <<The(option)>> ELSE <<>>

\* app_with_auth.py: the UserContext built from current_user
user_context_of(user) ==
    UserContext(user.role,
                IF user.role \in {"SO", "ASM", "ZSM"} THEN "territory" ELSE "national",
                user.sales_hierarchy_level, <<>>, <<>>, <<>>,
                list_of(user.so_code), list_of(user.asm_code),
                list_of(user.zsm_code), list_of(user.nsm_code))

\* a faulty variant of the test below: the errors are ignored
has_errors_ignored(error_list) == FALSE

\* "if errors:" of process_query
has_errors(error_list) == error_list # <<>>

----------------------------------------------------------------------------
(* SpecPipeline: one request through process_query of either frontend,     *)
(* from the question to the response.                                      *)

\* most filters in a parsed query
MaxFilters == 1

\* security/auth.py: User sets id, username, email, full_name, client_id and
\* role only, and reading another attribute of it raises AttributeError.
\* The users table (database/create_user_db.py) also holds
\* sales_hierarchy_level and the four codes; hierarchy_fields says whether
\* the user object carries them.
User(role, hierarchy_fields, sales_hierarchy_level, so_code, asm_code, zsm_code, nsm_code) ==
    [role |-> role, hierarchy_fields |-> hierarchy_fields,
     sales_hierarchy_level |-> sales_hierarchy_level, so_code |-> so_code,
     asm_code |-> asm_code, zsm_code |-> zsm_code, nsm_code |-> nsm_code]

Roles == {"admin", "analyst", "NSM", "ZSM", "ASM", "SO"}

\* the users of the users table, with and without level and code
Users ==
    {User(role, FALSE, None, None, None, None, None) : role \in Roles}
    \cup {User(role, TRUE, None, None, None, None, None) : role \in {"admin", "analyst"}}
    \cup {User("NSM", TRUE, level, None, None, None, code) :
              level \in {None, Some("NSM")}, code \in {None, Some("NSM01")}}
    \cup {User("ZSM", TRUE, level, None, None, code, None) :
              level \in {None, Some("ZSM")}, code \in {None, Some("ZSM01")}}
    \cup {User("ASM", TRUE, level, None, code, None, None) :
              level \in {None, Some("ASM")}, code \in {None, Some("ZSM01_ASM1")}}
    \cup {User("SO", TRUE, level, code, None, None, None) :
              level \in {None, Some("SO")}, code \in {None, Some("ZSM01_ASM1_SO01")}}

\* filters a parser can produce: valid ones, one on a dimension the
\* validator does not know, one without values
ParsedFilters ==
    {Filter("state_name", "=", <<StrValue(<<"Tamil Nadu">>)>>),
     Filter("zone_name", "IN", <<StrValue(<<"North">>), StrValue(<<"South">>)>>),
     Filter("so_code", "=", <<StrValue(<<"ZSM01_ASM1_SO01">>)>>),
     Filter("brand_name", "=", <<>>)}
FilterLists == UNION {[1..k -> ParsedFilters] : k \in 0..MaxFilters}

\* parsed queries that differ in their filters
FilteredQueries ==
    {[BaseQuery(i) EXCEPT !.filters = f] : i \in IntentType, f \in FilterLists}

\* parsed queries that differ in metric, group_by, window and diagnostics
ShapedQueries ==
    {[BaseQuery(i) EXCEPT !.metric_request.primary_metric = m,
                          !.dimensionality.group_by = g,
                          !.time_context.window = w, !.diagnostics = dg] :
        i \in IntentType, m \in {"secondary_sales_value", "nonexistent_metric"},
        g \in {<<>>, <<"brand_name">>, <<"fiscal_month">>, <<"product">>},
        w \in {"last_4_weeks", "yesterday"},
        dg \in {None, Some(Diagnostics(TRUE, "contribution", <<"zone_name">>, "0.05")),
                Some(Diagnostics(TRUE, "contribution", <<>>, "0.05")),
                Some(Diagnostics(TRUE, "contribution", <<"zone_name", "brand_name">>, "0.05")),
                Some(Diagnostics(TRUE, "contribution", <<"brand_name", "brand_name">>, "0.05"))}}

PipelineQueries == FilteredQueries \cup ShapedQueries

InitPipeline ==
    /\ pc = "receive"
    /\ app \in {"app", "app_with_auth"}
    /\ current_user \in IF app = "app" THEN {None} ELSE {Some(u) : u \in Users}
    /\ user_context = None
    /\ semantic_query = None
    /\ errors = <<>>
    /\ secured_query = None
    /\ queries = <<>>
    /\ results = <<>>
    /\ response = None
    /\ trace = <<>>
    /\ LiteralIdle
    /\ PatternIdle
    /\ AnalysisIdle

\* the returns of process_query before the question is parsed: examples,
\* no business keyword, another client's data, a question too broad
RejectQuestion ==
    /\ pc = "receive"
    /\ response' = ErrorResponse("rejected")
    /\ pc' = "done"
    /\ UNCHANGED <<app, current_user, user_context, semantic_query, errors, secured_query, queries, results, trace>>
    /\ UNCHANGED <<literalVars, patternVars>>
    /\ UNCHANGED analysisVars

\* intent_parser.parse raises, or (app.py) the confidence is below 0.5
ParseFails ==
    /\ pc = "receive"
    /\ \E kind \in {"not_understood"} \cup (IF app = "app" THEN {"low_confidence"} ELSE {}) :
           response' = ErrorResponse(kind)
    /\ trace' = Append(trace, "parse")
    /\ pc' = "done"
    /\ UNCHANGED <<app, current_user, user_context, semantic_query, errors, secured_query, queries, results>>
    /\ UNCHANGED <<literalVars, patternVars>>
    /\ UNCHANGED analysisVars

\* semantic_query = intent_parser.parse(question)
Parse ==
    /\ pc = "receive"
    /\ \E q \in PipelineQueries : semantic_query' = Some(q)
    /\ trace' = Append(trace, "parse")
    /\ pc' = "validate"
    /\ UNCHANGED <<app, current_user, user_context, errors, secured_query, queries, results, response>>
    /\ UNCHANGED <<literalVars, patternVars>>
    /\ UNCHANGED analysisVars

\* errors = validator.validate(semantic_query); if errors: return
Validate ==
    /\ pc = "validate"
    /\ LET error_list == validate(The(semantic_query)) IN
       /\ errors' = error_list
       /\ IF has_errors(error_list)
          THEN /\ response' = Some(Response(FALSE, "validation", error_list, <<>>, None, None))
               /\ pc' = "done"
          ELSE /\ response' = response
               /\ pc' = "security"
    /\ trace' = Append(trace, "validate")
    /\ UNCHANGED <<app, current_user, user_context, semantic_query, secured_query, queries, results>>
    /\ UNCHANGED <<literalVars, patternVars>>
    /\ UNCHANGED analysisVars

\* secured_query = RowLevelSecurity.apply_security(semantic_query, user);
\* in app_with_auth the UserContext is built from current_user first
ApplySecurity ==
    /\ pc = "security"
    /\ IF app = "app_with_auth" /\ ~The(current_user).hierarchy_fields
       THEN /\ response' = ErrorResponse("unexpected")
            /\ pc' = "done"
            /\ UNCHANGED <<user_context, secured_query, trace>>
       ELSE /\ LET user == IF app = "app" THEN demo_user
                           ELSE user_context_of(The(current_user)) IN
               /\ user_context' = Some(user)
               /\ secured_query' = Some(apply_security(The(semantic_query), user))
            /\ trace' = Append(trace, "rls")
            /\ pc' = "execute"
            /\ response' = response
    /\ UNCHANGED <<app, current_user, semantic_query, errors, queries, results>>
    /\ UNCHANGED <<literalVars, patternVars>>
    /\ UNCHANGED analysisVars

\* whether the request is executed by Cube.js first
ViaCube == app = "app_with_auth" /\ The(secured_query).intent # "diagnostic"

\* orchestrator.execute(secured_query) begins: the sub-queries are built
OrchestratorExecute ==
    /\ pc = "execute"
    /\ ~ViaCube
    /\ queries' = queries_to_execute(The(secured_query))
    /\ pc' = "run"
    /\ UNCHANGED <<app, current_user, user_context, semantic_query, errors, secured_query, results, response, trace>>
    /\ UNCHANGED <<literalVars, patternVars>>
    /\ UNCHANGED analysisVars

\* adapter.build_query and adapter.execute return
CubeAnswers ==
    /\ pc = "execute"
    /\ ViaCube
    /\ response' = Some(Response(TRUE, "single", <<>>, <<>>, None, None))
    /\ trace' = Append(trace, "cube")
    /\ pc' = "done"
    /\ UNCHANGED <<app, current_user, user_context, semantic_query, errors, secured_query, queries, results>>
    /\ UNCHANGED <<literalVars, patternVars>>
    /\ UNCHANGED analysisVars

\* CubeJSError: the request falls back to orchestrator.execute(secured_query)
CubeFallsBack ==
    /\ pc = "execute"
    /\ ViaCube
    /\ queries' = queries_to_execute(The(secured_query))
    /\ trace' = Append(trace, "cube")
    /\ pc' = "run"
    /\ UNCHANGED <<app, current_user, user_context, semantic_query, errors, secured_query, results, response>>
    /\ UNCHANGED <<literalVars, patternVars>>
    /\ UNCHANGED analysisVars

\* generate_cubejs_token or the adapter raises another exception
CubeRaises ==
    /\ pc = "execute"
    /\ ViaCube
    /\ response' = ErrorResponse("unexpected")
    /\ trace' = Append(trace, "cube")
    /\ pc' = "done"
    /\ UNCHANGED <<app, current_user, user_context, semantic_query, errors, secured_query, queries, results>>
    /\ UNCHANGED <<literalVars, patternVars>>
    /\ UNCHANGED analysisVars

\* the response of a request whose sub-queries have all been executed;
\* total_queries is len(queries), the length of the list built before the loop
success_response(dict) ==
    IF The(secured_query).intent = "diagnostic"
    THEN Some(Response(TRUE, "diagnostic", <<>>, keys(dict), Some([analysis_of |-> keys(dict)]),
                       Some(Len(diagnostic_queries(The(secured_query))))))
    ELSE Some(Response(TRUE, "single", <<>>, <<>>, None, None))

\* the next sub-query is compiled and executed; the database answers
\* (executor_ok) or fails.  After the last one the results are analysed
\* and the response is returned; an exception ends the request.
ExecuteSubQuery(executor_ok) ==
    /\ pc = "run"
    /\ queries # <<>>
    /\ LET outcome == execute_single(Head(queries).query, executor_ok)
           stored == IF The(secured_query).intent = "diagnostic"
                     THEN loop_body(results, Head(queries).name, outcome)
                     ELSE outcome
       IN IF stored.raised
          THEN /\ response' = ErrorResponse("unexpected")
               /\ trace' = Append(trace, "failed")
               /\ pc' = "done"
               /\ UNCHANGED <<queries, results>>
          ELSE /\ results' = IF The(secured_query).intent = "diagnostic" THEN stored.value
                             ELSE dict_set(results, Head(queries).name, outcome.value)
               /\ queries' = Tail(queries)
               /\ trace' = Append(trace, IF outcome.raised THEN "failed" ELSE "execute")
               /\ IF Tail(queries) = <<>>
                  THEN response' = success_response(results') /\ pc' = "done"
                  ELSE response' = response /\ pc' = "run"
    /\ UNCHANGED <<app, current_user, user_context, semantic_query, errors, secured_query>>
    /\ UNCHANGED <<literalVars, patternVars>>
    /\ UNCHANGED analysisVars

NextPipeline ==
    \/ RejectQuestion
    \/ ParseFails
    \/ Parse
    \/ Validate
    \/ ApplySecurity
    \/ OrchestratorExecute
    \/ CubeAnswers
    \/ CubeFallsBack
    \/ CubeRaises
    \/ \E executor_ok \in BOOLEAN : ExecuteSubQuery(executor_ok)

SpecPipeline == InitPipeline /\ [][NextPipeline]_vars

----------------------------------------------------------------------------
(* SpecSecurity: a query is secured for a user and compiled, as            *)
(* demo_with_security of demo_cpg_system.py does: apply_security, then     *)
(* semantic_query_to_sql.                                                  *)

\* SemanticLayer.semantic_query_to_sql: optimize_query, then build_query; an
\* exception is raised again as ValueError
semantic_query_to_sql(q) ==
    LET out == optimize_query(<<q>>, 1)
        built == build_query(out.heap[out.ref])
    IN IF built.raised THEN Raise("ValueError") ELSE built

\* the user of demo_with_security, and the users of get_user_context_from_role
SecurityUsers ==
    {UserContext("sales_rep", "state", None, <<>>, <<>>, <<"Tamil Nadu", "Karnataka">>,
                 <<>>, <<>>, <<>>, <<>>)}
    \cup {get_user_context_from_role(role) :
              role \in {"NSM", "ZSM", "ASM", "SO", "executive", "admin", "manager",
                        "sales_rep", "guest"}}

InitSecurity ==
    /\ pc = "start"
    /\ app = "demo_cpg_system"
    /\ current_user = None
    /\ user_context \in {Some(u) : u \in SecurityUsers}
    /\ semantic_query \in {Some(q) : q \in FilteredQueries}
    /\ errors = <<>>
    /\ secured_query = None
    /\ queries = <<>>
    /\ results = <<>>
    /\ response = None
    /\ trace = <<>>
    /\ LiteralIdle
    /\ PatternIdle
    /\ AnalysisIdle

\* secured_query = RowLevelSecurity.apply_security(semantic_query, user)
SecureQuery ==
    /\ pc = "start"
    /\ secured_query' = Some(apply_security(The(semantic_query), The(user_context)))
    /\ trace' = Append(trace, "rls")
    /\ pc' = "secured"
    /\ UNCHANGED <<app, current_user, user_context, semantic_query, errors, queries, results, response>>
    /\ UNCHANGED <<literalVars, patternVars>>
    /\ UNCHANGED analysisVars

\* sql_query = semantic_layer.semantic_query_to_sql(secured_query)
CompileSecured ==
    /\ pc = "secured"
    /\ LET built == semantic_query_to_sql(The(secured_query)) IN
       /\ query_ast' = built
       /\ pc' = IF built.raised THEN "failed" ELSE "compiled"
    /\ trace' = Append(trace, "build")
    /\ UNCHANGED <<app, current_user, user_context, semantic_query, errors, secured_query, queries, results, response>>
    /\ UNCHANGED <<heap, arg, returned, applied>>
    /\ UNCHANGED literalVars
    /\ UNCHANGED analysisVars

NextSecurity ==
    \/ SecureQuery
    \/ CompileSecured

SpecSecurity == InitSecurity /\ [][NextSecurity]_vars

----------------------------------------------------------------------------
(* Properties of the request pipeline, the orchestrator and row-level      *)
(* security                                                                *)

\* the number of conditions of the WHERE clause of a compiled query
where_count(ast) == IF IsNone(ast.where) THEN 0 ELSE Len(The(ast.where))

\* the number of conditions the metric of a query contributes
metric_count(q) ==
    Len(metric_filter_conditions(The(get_metric(q.metric_request.primary_metric))))

\* C3: when the execution of a sub-query of a diagnostic request fails, the
\* request ends in an error, no later sub-query is executed, and the
\* response has neither an analysis nor sub-query results.
C3_DiagnosticAllOrNothing ==
    (IsSome(secured_query) /\ The(secured_query).intent = "diagnostic" /\ In("failed", trace))
    => /\ pc = "done"
       /\ trace[Len(trace)] = "failed"
       /\ ~The(response).success
       /\ IsNone(The(response).analysis)
       /\ The(response).sub_queries = <<>>

\* the second sub-query of a diagnostic request failed after the first one
\* had been executed
C3_Witness ==
    /\ pc = "done"
    /\ IsSome(secured_query)
    /\ The(secured_query).intent = "diagnostic"
    /\ trace = <<"parse", "validate", "rls", "execute", "failed">>
    /\ keys(results) = <<<<"trend_confirmation">>>>
    /\ Len(queries) = 3
    /\ response = ErrorResponse("unexpected")

\* a diagnostic request whose four sub-queries were all executed
C3_WitnessComplete ==
    /\ pc = "done"
    /\ IsSome(response)
    /\ trace = <<"parse", "validate", "rls", "execute", "execute", "execute", "execute">>
    /\ The(response).success
    /\ Len(The(response).sub_queries) = 4

\* C4: a request whose validation returned errors ends with these errors,
\* and validation is the last step that ran for it: no RLS step, no build
\* and no execution.
C4_FailedValidationHalts ==
    errors # <<>>
    => /\ pc = "done"
       /\ trace[Len(trace)] = "validate"
       /\ \A i \in 1..Len(trace) : trace[i] \notin {"rls", "cube", "build", "execute", "failed"}
       /\ user_context = None /\ secured_query = None
       /\ queries = <<>> /\ results = <<>>
       /\ response = Some(Response(FALSE, "validation", errors, <<>>, None, None))

\* a request with a filter on a dimension the validator does not know ended
\* after validation
C4_Witness ==
    /\ pc = "done"
    /\ app = "app_with_auth"
    /\ errors = <<"Invalid filter dimension">>
    /\ trace = <<"parse", "validate">>

\* the same in app.py, with two errors
C4_WitnessApp ==
    /\ pc = "done"
    /\ app = "app"
    /\ errors = <<"Unknown dimension", "Invalid time window">>
    /\ trace = <<"parse", "validate">>

\* C5: the WHERE clause of the compiled query has one predicate for each
\* filter of the query, the filters apply_security appended included.
C5_EveryFilterCompiled ==
    pc = "compiled"
    => where_count(query_ast.value)
           = metric_count(The(secured_query)) + Len(The(secured_query).filters)

\* the so_code filter of a Sales Officer was appended and the compiled
\* query has no WHERE clause
C5_SecurityFilterDropped ==
    /\ pc = "compiled"
    /\ The(user_context) = get_user_context_from_role("SO")
    /\ The(semantic_query).filters = <<>>
    /\ The(secured_query).filters =
           <<Filter("so_code", "IN", <<StrValue(<<"ZSM01_ASM1_SO01">>)>>)>>
    /\ IsNone(query_ast.value.where)

IsSecurityFilter(f) ==
    /\ f.dimension \in {"so_code", "asm_code", "zsm_code", "nsm_code",
                        "state_name", "zone_name", "district_name"}
    /\ f.operator = "IN"
    /\ f.values # <<>>

C6_WitnessAppended ==
    /\ pc = "done"
    /\ app = "app_with_auth"
    /\ IsSome(secured_query)
    /\ The(secured_query).intent = "diagnostic"
    /\ The(semantic_query).filters = <<>>
    /\ The(response).success
    /\ \A i \in 1..Len(results) :
           results[i].value.filters = <<Filter("zsm_code", "IN", <<StrValue(<<"ZSM01">>)>>)>>


----------------------------------------------------------------------------
(* SpecCompile: a SemanticQuery is validated and compiled, as              *)
(* demo_manual_query and demo_validation of demo_cpg_system.py do          *)
(* (validate, then semantic_query_to_sql when there are no errors), or     *)
(* handed to ASTQueryBuilder.build_query directly, as the orchestrator's   *)
(* _execute_single does.                                                   *)

\* most dimensions in the group_by of a query checked against the cap
MaxDimensions == 5

\* queries that differ in the number of their dimensions and in their metric
CapDimensions == {"brand_name", "state_name"}
CapQueries ==
    {[BaseQuery("snapshot") EXCEPT !.metric_request.primary_metric = m,
                                   !.dimensionality.group_by = g] :
        m \in {"secondary_sales_value", "sales", "nonexistent_metric"},
        g \in UNION {[1..k -> CapDimensions] : k \in 0..MaxDimensions}}

\* the queries of demo_validation
DemoQueries ==
    {[BaseQuery("snapshot") EXCEPT !.metric_request.primary_metric = m,
                                   !.dimensionality.group_by = g,
                                   !.time_context.window = "this_month"] :
        m \in {"secondary_sales_value", "nonexistent_metric"},
        g \in {<<>>, <<"brand_name">>,
               <<"brand_name", "state_name", "month_name", "channel_name", "outlet_type">>}}

\* queries that differ in the dimensions they group by: dimensions of each
\* table, one the join table lacks, one the compiler does not resolve and
\* one that only the catalog knows
JoinDimensions ==
    {"month_name", "brand_name", "sku_name", "state_name", "season", "fiscal_month", "product"}
JoinQueries ==
    {[BaseQuery("snapshot") EXCEPT !.metric_request.primary_metric = m,
                                   !.dimensionality.group_by = g] :
        m \in {"secondary_sales_value", "secondary_sales_volume"},
        g \in UNION {[1..k -> JoinDimensions] : k \in 0..MaxGroupBy}}

\* queries that differ in their sorting
SortLimits == {None} \cup {Some(n) : n \in {-1, 0, 1, 10000, 10001}}
SortQueries ==
    {[BaseQuery(i) EXCEPT !.dimensionality.group_by = g,
                          !.metric_request.secondary_metrics = sec,
                          !.sorting = Some(Sorting(ob, "DESC", lim))] :
        i \in {"snapshot", "ranking"},
        g \in {<<>>, <<"brand_name">>, <<"fiscal_month">>},
        sec \in {<<>>, <<"secondary_sales_volume">>},
        ob \in {"secondary_sales_value", "secondary_sales_volume", "brand_name",
                "state_name", "fiscal_month"},
        lim \in SortLimits}

\* queries that differ in their metric and in their filters
WhereQueries ==
    {[BaseQuery("snapshot") EXCEPT !.metric_request.primary_metric = m, !.filters = f] :
        m \in {"secondary_sales_value", "secondary_sales_volume", "sales"},
        f \in FilterLists}

CompileQueries == CapQueries \cup DemoQueries \cup JoinQueries \cup SortQueries \cup WhereQueries

InitCompile ==
    /\ pc = "start"
    /\ app = "demo_cpg_system"
    /\ current_user = None
    /\ user_context = None
    /\ semantic_query \in {Some(q) : q \in CompileQueries}
    /\ errors = <<>>
    /\ secured_query = None
    /\ queries = <<>>
    /\ results = <<>>
    /\ response = None
    /\ trace = <<>>
    /\ LiteralIdle
    /\ PatternIdle
    /\ AnalysisIdle

\* errors = validator.validate(semantic_query)
ValidateQuery ==
    /\ pc = "start"
    /\ errors' = validate(The(semantic_query))
    /\ trace' = Append(trace, "validate")
    /\ pc' = "validated"
    /\ UNCHANGED <<app, current_user, user_context, semantic_query, secured_query, queries, results, response>>
    /\ UNCHANGED <<literalVars, patternVars>>
    /\ UNCHANGED analysisVars

\* sql_query = semantic_layer.semantic_query_to_sql(semantic_query), reached
\* only when validate returned no error
CompileValidated ==
    /\ pc = "validated"
    /\ errors = <<>>
    /\ LET built == semantic_query_to_sql(The(semantic_query)) IN
       /\ query_ast' = built
       /\ pc' = IF built.raised THEN "failed" ELSE "compiled"
    /\ trace' = Append(trace, "semantic_query_to_sql")
    /\ UNCHANGED <<app, current_user, user_context, semantic_query, errors, secured_query, queries, results, response>>
    /\ UNCHANGED <<heap, arg, returned, applied>>
    /\ UNCHANGED literalVars
    /\ UNCHANGED analysisVars

\* query_ast = self.builder.build_query(semantic_query), without validation
BuildQuery ==
    /\ pc = "start"
    /\ LET built == build_query(The(semantic_query)) IN
       /\ query_ast' = built
       /\ pc' = IF built.raised THEN "failed" ELSE "built"
    /\ trace' = Append(trace, "build_query")
    /\ UNCHANGED <<app, current_user, user_context, semantic_query, errors, secured_query, queries, results, response>>
    /\ UNCHANGED <<heap, arg, returned, applied>>
    /\ UNCHANGED literalVars
    /\ UNCHANGED analysisVars

NextCompile ==
    \/ ValidateQuery
    \/ CompileValidated
    \/ BuildQuery

SpecCompile == InitCompile /\ [][NextCompile]_vars

----------------------------------------------------------------------------
(* Properties of validation and of the compiled query *)

\* the query being validated or compiled, and the compiled tree
TheQuery == The(semantic_query)
Compiled == pc \in {"built", "compiled"} /\ app = "demo_cpg_system" /\ secured_query = None
TheAst == query_ast.value

\* C11 as stated: validate returns the too-many-dimensions error for every
\* query with 5 or more group-by dimensions, and never for a query with 4
\* or fewer.
C11_DimensionCap ==
    pc = "validated"
    => (In("Too many dimensions", errors) <=> Len(TheQuery.dimensionality.group_by) >= 5)

\* C11: for a query whose primary metric the catalog knows, validate returns
\* the too-many-dimensions error exactly when the query has 5 or more
\* group-by dimensions, and returns it once; for a query whose primary
\* metric is unknown it returns the unknown-metric error alone.
C11_DimensionCapKnownMetric ==
    pc = "validated"
    => IF IsSome(get_metric(TheQuery.metric_request.primary_metric))
       THEN /\ In("Too many dimensions", errors)
                   <=> Len(TheQuery.dimensionality.group_by) >= 5
            /\ Len(SelectSeq(errors, LAMBDA e : e = "Too many dimensions")) <= 1
       ELSE errors = <<"Unknown metric">>

\* the query of demo_validation with five distinct dimensions was validated
\* and the cap error is the only error
C11_Witness ==
    /\ pc = "validated"
    /\ TheQuery.metric_request.primary_metric = "secondary_sales_value"
    /\ TheQuery.dimensionality.group_by =
           <<"brand_name", "state_name", "month_name", "channel_name", "outlet_type">>
    /\ errors = <<"Too many dimensions">>

\* a query with five dimensions and an unknown metric was validated and the
\* cap error is not returned
C11_WitnessUnknownMetric ==
    /\ pc = "validated"
    /\ Len(TheQuery.dimensionality.group_by) = 5
    /\ errors = <<"Unknown metric">>


----------------------------------------------------------------------------
(* Properties of the diagnostic workflow *)

\* the number of sub-queries the claim expects for a diagnostic query: the
\* trend confirmation plus one per entry of diagnostics.dimensions, or
\* plus the three default dimensions
ExpectedSubQueries(q) ==
    IF IsSome(q.diagnostics) /\ The(q.diagnostics).dimensions # <<>>
    THEN 1 + Len(The(q.diagnostics).dimensions)
    ELSE 4

\* the number of sub-queries that were executed
Executed == Len(SelectSeq(trace, LAMBDA step : step = "execute"))

\* a diagnostic request was answered by the orchestrator
DiagnosticAnswered ==
    /\ pc = "done"
    /\ IsSome(response)
    /\ The(response).success
    /\ The(response).kind = "diagnostic"

\* C12: a diagnostic query is answered after exactly 1+N sub-queries have
\* been executed, the sub_queries map of the result has exactly 1+N entries
\* and metadata.total_queries is 1+N, where N is the number of entries of
\* diagnostics.dimensions, or 3 when there are none.
C12_DiagnosticSubQueries ==
    DiagnosticAnswered
    => /\ Executed = ExpectedSubQueries(The(secured_query))
       /\ Len(The(response).sub_queries) = ExpectedSubQueries(The(secured_query))
       /\ The(response).total_queries = Some(ExpectedSubQueries(The(secured_query)))

\* diagnostics.dimensions names brand_name twice: three sub-queries were
\* executed and total_queries is 3, but the sub_queries map has two entries
C12_DuplicateDimension ==
    /\ DiagnosticAnswered
    /\ The(The(secured_query).diagnostics).dimensions = <<"brand_name", "brand_name">>
    /\ Executed = 3
    /\ The(response).total_queries = Some(3)
    /\ The(response).sub_queries = <<<<"trend_confirmation">>, <<"contribution", "brand_name">>>>

\* with distinct dimensions, or none, the three numbers agree
C12_DistinctDimensions ==
    (DiagnosticAnswered
     /\ \A i, j \in 1..Len(get_diagnostic_dimensions(The(secured_query))) :
            get_diagnostic_dimensions(The(secured_query))[i]
                = get_diagnostic_dimensions(The(secured_query))[j] => i = j)
    => /\ Executed = ExpectedSubQueries(The(secured_query))
       /\ Len(The(response).sub_queries) = ExpectedSubQueries(The(secured_query))
       /\ The(response).total_queries = Some(ExpectedSubQueries(The(secured_query)))


----------------------------------------------------------------------------
(* orchestrator.py: QueryOrchestrator._analyze_trend.  The rows are given  *)
(* by their metric values, which are integers.  A percentage is kept as    *)
(* the exact fraction num / den; the value round(change_pct, 2) reports is *)
(* kept in hundredths of a percent.                                        *)

Abs(n) == IF n < 0 THEN 0 - n ELSE n
Sign(n) == IF n < 0 THEN 0 - 1 ELSE IF n > 0 THEN 1 ELSE 0

\* A faulty variant of the change below: a first value of 0 is not set
\* apart, the change is taken against 1.
change_pct_of_unguarded(first_value, last_value) ==
    [num |-> (last_value - first_value) * 100,
     den |-> IF first_value = 0 THEN 1 ELSE first_value]

\* change_pct = ((last_value - first_value) / first_value) * 100, or 0 when
\* first_value is 0
change_pct_of(first_value, last_value) ==
    IF first_value = 0 THEN [num |-> 0, den |-> 1]
    ELSE [num |-> (last_value - first_value) * 100, den |-> first_value]

\* round(change_pct, 2), in hundredths: the nearest hundredth, the even one
\* of two that are equally near
round2(change_pct) ==
    LET a == Abs(change_pct.num) * 100
        b == Abs(change_pct.den)
        q == a \div b
        r == a % b
        nearest == IF 2 * r > b THEN q + 1
                   ELSE IF 2 * r = b /\ q % 2 = 1 THEN q + 1
                   ELSE q
    IN Sign(change_pct.num) * Sign(change_pct.den) * nearest

\* a faulty variant of the direction test below: a change of exactly one
\* percent counts as stable
direction_of_inclusive(change_pct) ==
    IF Abs(change_pct.num) <= Abs(change_pct.den) THEN "stable"
    ELSE IF Sign(change_pct.num) * Sign(change_pct.den) > 0 THEN "increasing"
    ELSE "decreasing"

\* the direction: abs(change_pct) < 1, else change_pct > 0, else
direction_of(change_pct) ==
    IF Abs(change_pct.num) < Abs(change_pct.den) THEN "stable"
    ELSE IF Sign(change_pct.num) * Sign(change_pct.den) > 0 THEN "increasing"
    ELSE "decreasing"

\* QueryOrchestrator._analyze_trend; max(values), min(values) and
\* values.index(x) are the built-ins
analyze_trend(values) ==
    IF Len(values) < 2
    THEN [direction |-> "insufficient_data", change_pct |-> 0, data_points |-> Len(values)]
    ELSE LET max == CHOOSE x \in {values[i] : i \in 1..Len(values)} :
                        \A j \in 1..Len(values) : values[j] <= x
             min == CHOOSE x \in {values[i] : i \in 1..Len(values)} :
                        \A j \in 1..Len(values) : values[j] >= x
             index(x) == CHOOSE i \in 1..Len(values) :
                             values[i] = x /\ \A j \in 1..(i - 1) : values[j] # x
             first_value == values[1]
             last_value == values[Len(values)]
             change_pct == change_pct_of(first_value, last_value)
             peak_idx == index(max)
             trough_idx == index(min)
         IN [direction |-> direction_of(change_pct),
             change_pct |-> round2(change_pct),
             first_value |-> first_value,
             last_value |-> last_value,
             peak |-> [value |-> values[peak_idx], period |-> peak_idx],
             trough |-> [value |-> values[trough_idx], period |-> trough_idx],
             data_points |-> Len(values)]

----------------------------------------------------------------------------
(* SpecTrend: _analyze_trend is applied to the rows of a trend query.      *)

\* most rows of a trend series
MaxPoints == 4

\* the metric values of the rows: a negative one, zero, small ones, the
\* values of a declining series, and pairs one percent and just under one
\* percent apart
TrendValues == {0 - 100, 0, 3, 70, 85, 90, 100, 101, 201, 203}
TrendSeries == UNION {[1..k -> TrendValues] : k \in 0..MaxPoints}

InitTrend ==
    /\ pc = "start"
    /\ trend_data \in TrendSeries
    /\ trend_analysis = None
    /\ LiteralIdle
    /\ PatternIdle
    /\ PipelineIdle
    /\ trace = <<>>

\* trend_analysis = self._analyze_trend(trend_data, metric_name)
AnalyzeTrend ==
    /\ pc = "start"
    /\ trend_analysis' = Some(analyze_trend(trend_data))
    /\ pc' = "analysed"
    /\ UNCHANGED trend_data
    /\ UNCHANGED <<literalVars, patternVars, pipelineVars>>

NextTrend == AnalyzeTrend

SpecTrend == InitTrend /\ [][NextTrend]_vars

----------------------------------------------------------------------------
(* Properties of the trend analysis *)

\* a series of at least two points whose first value is not zero was analysed
TrendAnalysed == pc = "analysed" /\ Len(trend_data) >= 2 /\ trend_data[1] # 0

\* the exact change, in hundredths of a percent, times the first value
ExactChange == (trend_data[Len(trend_data)] - trend_data[1]) * 10000

\* C13 as stated: the reported change_pct is (last - first) / first * 100,
\* the direction is stable when |change_pct| < 1, increasing when
\* change_pct >= 1 and decreasing when change_pct <= -1, the peak is the
\* maximum and the trough the minimum.
C13_TrendAnalysis ==
    TrendAnalysed
    => LET t == The(trend_analysis) IN
       /\ t.change_pct * trend_data[1] = ExactChange
       /\ t.direction = (IF Abs(t.change_pct) < 100 THEN "stable"
                         ELSE IF t.change_pct >= 100 THEN "increasing" ELSE "decreasing")
       /\ \A i \in 1..Len(trend_data) :
              t.trough.value <= trend_data[i] /\ trend_data[i] <= t.peak.value
       /\ \E i, j \in 1..Len(trend_data) :
              t.peak.value = trend_data[i] /\ t.trough.value = trend_data[j]

\* C13: the reported change_pct is (last - first) / first * 100 rounded to
\* two decimals (it is at most half a hundredth away); the direction is
\* decided on the unrounded change: stable when it is less than 1 in
\* absolute value, increasing when it is >= 1, decreasing when it is <= -1;
\* the peak is the maximum of the series and the trough its minimum.
C13_TrendAnalysisRounded ==
    TrendAnalysed
    => LET t == The(trend_analysis)
           first == trend_data[1]
           exact == ExactChange
       IN /\ 2 * Abs(t.change_pct * first - exact) <= Abs(first)
          /\ t.direction = (IF Abs(exact) < 100 * Abs(first) THEN "stable"
                            ELSE IF exact * Sign(first) >= 100 * Abs(first) THEN "increasing"
                            ELSE "decreasing")
          /\ \A i \in 1..Len(trend_data) :
                 t.trough.value <= trend_data[i] /\ trend_data[i] <= t.peak.value
          /\ \E i, j \in 1..Len(trend_data) :
                 t.peak.value = trend_data[i] /\ t.trough.value = trend_data[j]
          /\ t.data_points = Len(trend_data)

\* the series 100, 90, 85, 70 was analysed: decreasing, -30, peak 100, trough 70
C13_Witness ==
    /\ pc = "analysed"
    /\ trend_data = <<100, 90, 85, 70>>
    /\ The(trend_analysis).direction = "decreasing"
    /\ The(trend_analysis).change_pct = 0 - 3000
    /\ The(trend_analysis).peak.value = 100
    /\ The(trend_analysis).trough.value = 70

\* the series 201, 203 was analysed: the change of 0.995 percent is stable
\* and is reported as 1.0
C13_WitnessRounded ==
    /\ pc = "analysed"
    /\ trend_data = <<201, 203>>
    /\ The(trend_analysis).direction = "stable"
    /\ The(trend_analysis).change_pct = 100

\* the series 100, 101 was analysed: a change of exactly one percent is
\* increasing
C13_WitnessOnePercent ==
    /\ pc = "analysed"
    /\ trend_data = <<100, 101>>
    /\ The(trend_analysis).direction = "increasing"
    /\ The(trend_analysis).change_pct = 100


----------------------------------------------------------------------------
(* Properties of the compiled query: sorting and metric filters *)

\* build_query was called with the query, without validation
BuildCalled == pc \in {"built", "failed"} /\ trace = <<"build_query">>

\* the sort field of the query is neither the primary metric, nor a
\* secondary metric, nor a dimension of group_by
AmbiguousSort(q) ==
    /\ IsSome(q.sorting)
    /\ The(q.sorting).order_by # q.metric_request.primary_metric
    /\ ~In(The(q.sorting).order_by, q.metric_request.secondary_metrics)
    /\ ~In(The(q.sorting).order_by, q.dimensionality.group_by)

\* C14: build_query fails for a query whose sort is ambiguous; it returns
\* no query, so the sort is neither dropped nor emitted into ORDER BY.
C14_AmbiguousSortRejected ==
    (BuildCalled /\ AmbiguousSort(TheQuery)) => (pc = "failed" /\ query_ast.raised)

\* a query grouped by brand_name and sorted by state_name was compiled, and
\* its ORDER BY clause is the text state_name
C14_AmbiguousSortEmitted ==
    /\ pc = "built"
    /\ trace = <<"build_query">>
    /\ TheQuery.dimensionality.group_by = <<"brand_name">>
    /\ TheQuery.metric_request.secondary_metrics = <<>>
    /\ IsSome(TheQuery.sorting)
    /\ The(TheQuery.sorting).order_by = "state_name"
    /\ ~query_ast.raised
    /\ TheAst.order_by = Some(<<[column |-> Node("str", "state_name"), direction |-> "DESC"]>>)

\* the name under which the catalog holds the metric of a query
MetricName(q) ==
    IF q.metric_request.primary_metric \in DOMAIN config.metrics
    THEN q.metric_request.primary_metric
    ELSE config.business_terms[q.metric_request.primary_metric]

\* the baked-in filters the configuration defines for the metric of a query
BakedInFilters(q) == config.metrics[MetricName(q)].filters

\* the user filters of a query that compile to a predicate
UserPredicates(q) ==
    SelectSeq(q.filters, LAMBDA f : IsSome(resolve_dimension_attribute(f.dimension)))

\* C15: a query compiled for a metric whose configuration defines baked-in
\* filters has one WHERE predicate on the fact table per baked-in filter,
\* followed by the predicates of the user filters.
C15_BakedInFilters ==
    (Compiled /\ BakedInFilters(TheQuery) # <<>>)
    => /\ IsSome(TheAst.where)
       /\ Len(The(TheAst.where)) = Len(BakedInFilters(TheQuery)) + Len(UserPredicates(TheQuery))
       /\ \A i \in 1..Len(BakedInFilters(TheQuery)) :
              /\ The(TheAst.where)[i].left = ColumnRef(BakedInFilters(TheQuery)[i].col, Some("f"), None)
              /\ The(TheAst.where)[i].operator = "="

\* a query for secondary_sales_value, whose configuration has the filter
\* return_flag = false, passed validation and was compiled without any
\* WHERE clause
C15_NoBakedInPredicate ==
    /\ pc = "compiled"
    /\ trace = <<"validate", "semantic_query_to_sql">>
    /\ TheQuery.metric_request.primary_metric = "secondary_sales_value"
    /\ config.metrics.secondary_sales_value.filters
           = <<[eq |-> TRUE, col |-> "return_flag", val |-> "false"]>>
    /\ get_metric("secondary_sales_value") # None
    /\ TheQuery.filters = <<>>
    /\ TheAst.where = None


----------------------------------------------------------------------------
(* Properties of the compiled query: joins, SELECT and GROUP BY *)

\* the alias the claim fixes for each dimension table
FixedAlias ==
    [dim_date |-> "d", dim_product |-> "p", dim_geography |-> "g",
     dim_customer |-> "c", dim_channel |-> "ch"]

\* the dimension table a dimension's column lives in: the table whose alias
\* qualifies the column the dimension resolves to (None: no column)
ImpliedTable(dim) ==
    IF dim \in {"date", "year", "quarter", "month", "month_name", "week", "day_name",
                "fiscal_year", "fiscal_quarter", "fiscal_week", "season"}
    THEN Some("dim_date")
    ELSE IF dim \in {"brand_name", "brand_code", "category_name", "sku_name", "sku_code",
                     "pack_size"}
    THEN Some("dim_product")
    ELSE IF dim \in {"state_name", "zone_name", "district_name", "town_name", "outlet_name"}
    THEN Some("dim_geography")
    ELSE IF dim \in {"distributor_name", "retailer_name", "outlet_type"}
    THEN Some("dim_customer")
    ELSE IF dim = "channel_name" THEN Some("dim_channel")
    ELSE None

\* the distinct tables implied by a list of dimensions, in the order of
\* their first use
RECURSIVE TablesUsed(_, _)
TablesUsed(dims, seen) ==
    IF dims = <<>> THEN <<>>
    ELSE LET t == ImpliedTable(Head(dims)) IN
         IF IsSome(t) /\ The(t) \notin seen
         THEN t \o TablesUsed(Tail(dims), seen \cup {The(t)})
         ELSE TablesUsed(Tail(dims), seen)

\* the joins of a tree are LEFT JOINs of the given tables, in order, each
\* with its fixed alias and ON f.<key> = <alias>.<key>
JoinsAre(joins, tables) ==
    /\ Len(joins) = Len(tables)
    /\ \A i \in 1..Len(joins) :
           /\ joins[i].join_type = "LEFT"
           /\ joins[i].table = tables[i]
           /\ joins[i].alias = Some(FixedAlias[tables[i]])
           /\ joins[i].on_condition.operator = "="
           /\ joins[i].on_condition.left.table = Some("f")
           /\ joins[i].on_condition.right.table = Some(FixedAlias[tables[i]])
           /\ joins[i].on_condition.left.column = joins[i].on_condition.right.column

\* C16: the join list of a compiled query has exactly one LEFT JOIN per
\* distinct dimension table implied by the dimensions the query groups by,
\* each with its fixed alias and ON f.<key> = <alias>.<key>, in the order
\* in which the tables are first used.
C16_OneJoinPerTable ==
    Compiled => JoinsAre(TheAst.joins, TablesUsed(TheQuery.dimensionality.group_by, {}))

\* a query grouped by season passed validation and was compiled: d.season
\* is selected and grouped by, and dim_date is not joined
C16_SeasonNotJoined ==
    /\ pc = "compiled"
    /\ trace = <<"validate", "semantic_query_to_sql">>
    /\ TheQuery.dimensionality.group_by = <<"season">>
    /\ TheAst.select[1] = Node("ColumnRef", ColumnRef("d.season", None, Some("season")))
    /\ TheAst.group_by = Some(<<ColumnRef("d.season", None, None)>>)
    /\ TheAst.joins = <<>>

\* for the dimensions the join table of _build_joins lists, the joins are
\* as the claim says
C16_ListedDimensions ==
    (Compiled /\ \A i \in 1..Len(TheQuery.dimensionality.group_by) :
                     \/ TheQuery.dimensionality.group_by[i] \in DOMAIN dimension_tables
                     \/ IsNone(ImpliedTable(TheQuery.dimensionality.group_by[i])))
    => JoinsAre(TheAst.joins, TablesUsed(TheQuery.dimensionality.group_by, {}))

\* the five tables are joined in the order of their first use
C16_FiveJoins ==
    /\ Compiled
    /\ TheQuery.dimensionality.group_by
           = <<"brand_name", "state_name", "month_name", "channel_name", "outlet_type">>
    /\ [i \in 1..5 |-> TheAst.joins[i].table]
           = <<"dim_product", "dim_geography", "dim_date", "dim_channel", "dim_customer">>

\* a dimension of group_by does not resolve to a column
Unresolved(q) ==
    \E i \in 1..Len(q.dimensionality.group_by) :
        IsNone(resolve_dimension_attribute(q.dimensionality.group_by[i]))

\* C18: build_query fails and returns no Query when a name of group_by does
\* not resolve to a column.
C18_UnresolvedDimensionFails ==
    (pc \in {"built", "compiled", "failed"} /\ trace # <<>> /\ Unresolved(TheQuery))
    => query_ast.raised

\* a query grouped by product, a dimension of the catalog that the compiler
\* does not resolve, passed validation and was compiled: the dimension is
\* missing from SELECT and there is no GROUP BY
C18_DimensionDropped ==
    /\ pc = "compiled"
    /\ trace = <<"validate", "semantic_query_to_sql">>
    /\ errors = <<>>
    /\ TheQuery.dimensionality.group_by = <<"product">>
    /\ ~query_ast.raised
    /\ Len(TheAst.select) = 1
    /\ TheAst.select[1].node = "AggregateExpr"
    /\ TheAst.group_by = None

\* build_query drops fiscal_month and keeps brand_name
C18_DimensionDroppedBuild ==
    /\ pc = "built"
    /\ TheQuery.dimensionality.group_by = <<"fiscal_month", "brand_name">>
    /\ Len(TheAst.select) = 2
    /\ TheAst.group_by = Some(<<ColumnRef("p.brand_name", None, None)>>)

\* the columns the resolvable dimensions of group_by resolve to, in order
ResolvedColumns(q) ==
    LET resolvable == SelectSeq(q.dimensionality.group_by,
                                LAMBDA dim : dim \in DOMAIN dimension_mapping)
    IN [i \in 1..Len(resolvable) |-> [dim |-> resolvable[i],
                                      column |-> dimension_mapping[resolvable[i]]]]

\* the secondary metrics of a query that the catalog knows
KnownSecondary(q) ==
    SelectSeq(q.metric_request.secondary_metrics, LAMBDA name : IsSome(get_metric(name)))

\* C19: the SELECT list of a compiled query is the dimension columns in
\* group_by order, then the primary metric, then the secondary metrics; the
\* GROUP BY clause lists the same dimension columns in the same order, and
\* is absent exactly when no dimension column is selected.
C19_SelectAndGroupBy ==
    Compiled
    => LET cols == ResolvedColumns(TheQuery)
           sec == KnownSecondary(TheQuery)
           n == Len(cols)
       IN /\ Len(TheAst.select) = n + 1 + Len(sec)
          /\ \A i \in 1..n :
                 /\ TheAst.select[i].node = "ColumnRef"
                 /\ TheAst.select[i].expr.column = cols[i].column
                 /\ TheAst.select[i].expr.alias = Some(cols[i].dim)
          /\ TheAst.select[n + 1].expr.alias = Some(TheQuery.metric_request.primary_metric)
          /\ \A i \in 1..Len(sec) :
                 /\ TheAst.select[n + 1 + i].node = "str"
                 /\ TheAst.select[n + 1 + i].expr.alias = sec[i]
          /\ (TheAst.group_by = None) <=> (n = 0)
          /\ n > 0 => /\ Len(The(TheAst.group_by)) = n
                      /\ \A i \in 1..n :
                             The(TheAst.group_by)[i].column = TheAst.select[i].expr.column

\* a query grouped by state_name and brand_name with a secondary metric was
\* compiled
C19_Witness ==
    /\ Compiled
    /\ TheQuery.dimensionality.group_by = <<"state_name", "brand_name">>
    /\ Len(TheAst.select) = 3
    /\ TheAst.select[1].expr.column = "g.state_name"
    /\ TheAst.select[2].expr.column = "p.brand_name"
    /\ TheAst.select[3].node = "AggregateExpr"
    /\ TheAst.group_by = Some(<<ColumnRef("g.state_name", None, None),
                                ColumnRef("p.brand_name", None, None)>>)

\* a query without dimensions and with a secondary metric was compiled
\* without GROUP BY
C19_WitnessNoGroupBy ==
    /\ Compiled
    /\ TheQuery.dimensionality.group_by = <<>>
    /\ TheQuery.metric_request.secondary_metrics = <<"secondary_sales_volume">>
    /\ Len(TheAst.select) = 2
    /\ TheAst.select[2].node = "str"
    /\ TheAst.group_by = None


----------------------------------------------------------------------------
(* Properties of the rendering of an IN filter *)

\* the number of quotes of a string before position i
QuotesBefore(s, i) == Cardinality({j \in 1..(i - 1) : s[j] = "'"})

\* a string with each of its quotes doubled
Doubled(s) ==
    [k \in 1..(Len(s) + QuotesBefore(s, Len(s) + 1)) |->
        s[CHOOSE i \in 1..Len(s) :
              /\ i + QuotesBefore(s, i) <= k
              /\ k <= i + QuotesBefore(s, i) + (IF s[i] = "'" THEN 1 ELSE 0)]]

\* the escaped literal of a string value
EscapedLiteral(v) == <<"'">> \o Doubled(v.chars) \o <<"'">>

\* the literals of the values, in order, separated by ", "
RECURSIVE InList(_)
InList(values) ==
    IF values = <<>> THEN <<>>
    ELSE EscapedLiteral(Head(values))
         \o (IF Tail(values) = <<>> THEN <<>> ELSE <<", ">> \o InList(Tail(values)))

\* C17 as stated, with the column of its example: an IN filter on a
\* dimension that resolves renders as the dimension's name (state_name),
\* IN, and the parenthesised escaped literals of its values, in the order
\* of the values and separated by ", ".
C17_InListUnqualified ==
    (pc = "built" /\ filter_obj.operator = "IN"
     /\ IsSome(resolve_dimension_attribute(filter_obj.dimension)))
    => sql = <<"WHERE ", filter_obj.dimension, " ", "IN", " ", "(">>
             \o InList(filter_obj.values) \o <<")">>

\* C17: an IN filter on a dimension that resolves renders as the
\* alias-qualified column the dimension resolves to (g.state_name), IN, and
\* the parenthesised escaped literals of its values, in the order of the
\* values and separated by ", ".
C17_InListRendering ==
    (pc = "built" /\ filter_obj.operator = "IN"
     /\ IsSome(resolve_dimension_attribute(filter_obj.dimension)))
    => sql = <<"WHERE ", The(resolve_dimension_attribute(filter_obj.dimension)),
               " ", "IN", " ", "(">> \o InList(filter_obj.values) \o <<")">>

\* the IN filter on state_name with the values Tamil Nadu and O'Brien County
\* was rendered
C17_Witness ==
    /\ pc = "built"
    /\ filter_obj = Filter("state_name", "IN",
                           <<StrValue(<<"Tamil Nadu">>), StrValue(<<"O", "'", "Brien County">>)>>)
    /\ sql = <<"WHERE ", "g.state_name", " ", "IN", " ", "(",
               "'", "Tamil Nadu", "'", ", ", "'", "O", "'", "'", "Brien County", "'", ")">>


----------------------------------------------------------------------------
(* Properties of the limit *)

\* the query has a sorting whose limit is an integer
LimitSet(q) == IsSome(q.sorting) /\ IsSome(The(q.sorting).limit)

\* C20: for a query with a known primary metric whose sorting carries an
\* integer limit, validate returns the limit error exactly when the limit is
\* outside [1, 10000]; and a query that passed validation compiles to a
\* LIMIT inside [1, 10000], and to some LIMIT when its limit was set.
C20_LimitRange ==
    /\ (pc = "validated" /\ IsSome(get_metric(TheQuery.metric_request.primary_metric))
        /\ LimitSet(TheQuery))
       => (In("Limit must be between 1 and 10000", errors)
               <=> The(The(TheQuery.sorting).limit) \notin 1..10000)
    /\ (pc = "compiled" /\ trace = <<"validate", "semantic_query_to_sql">>)
       => /\ IsSome(TheAst.limit) => The(TheAst.limit).limit \in 1..10000
          /\ LimitSet(TheQuery) => IsSome(TheAst.limit)

\* a query with limit 0 was validated and no error was returned
C20_ZeroLimitAccepted ==
    /\ pc = "validated"
    /\ LimitSet(TheQuery)
    /\ The(The(TheQuery.sorting).limit) = 0
    /\ errors = <<>>

\* a snapshot query with limit 0 passed validation and was compiled without
\* a LIMIT clause
C20_ZeroLimitDropped ==
    /\ pc = "compiled"
    /\ trace = <<"validate", "semantic_query_to_sql">>
    /\ TheQuery.intent = "snapshot"
    /\ LimitSet(TheQuery)
    /\ The(The(TheQuery.sorting).limit) = 0
    /\ TheAst.limit = None

\* for every limit other than 0 the limit error is returned exactly when
\* the limit is outside [1, 10000], and a validated query keeps a LIMIT
\* inside the range
C20_NonZeroLimits ==
    /\ (pc = "validated" /\ IsSome(get_metric(TheQuery.metric_request.primary_metric))
        /\ LimitSet(TheQuery) /\ The(The(TheQuery.sorting).limit) # 0)
       => (In("Limit must be between 1 and 10000", errors)
               <=> The(The(TheQuery.sorting).limit) \notin 1..10000)
    /\ (pc = "compiled" /\ trace = <<"validate", "semantic_query_to_sql">>)
       => /\ IsSome(TheAst.limit) => The(TheAst.limit).limit \in 1..10000
          /\ (LimitSet(TheQuery) /\ The(The(TheQuery.sorting).limit) # 0)
             => IsSome(TheAst.limit)


----------------------------------------------------------------------------
(* Properties of the divide-by-zero guard *)

\* C22: for a series of at least two points whose first value is 0, the
\* change is computed without dividing by the first value (the divisor of
\* the change is not 0), the reported change_pct is 0 and the direction is
\* stable, whatever the later values.
C22_ZeroFirstValue ==
    (pc = "analysed" /\ Len(trend_data) >= 2 /\ trend_data[1] = 0)
    => /\ change_pct_of(trend_data[1], trend_data[Len(trend_data)]).den # 0
       /\ change_pct_of(trend_data[1], trend_data[Len(trend_data)]).num = 0
       /\ The(trend_analysis).change_pct = 0
       /\ The(trend_analysis).direction = "stable"
       /\ The(trend_analysis).first_value = 0

\* the series 0, 85, 203 was analysed: stable, change_pct 0
C22_Witness ==
    /\ pc = "analysed"
    /\ trend_data = <<0, 85, 203>>
    /\ The(trend_analysis).change_pct = 0
    /\ The(trend_analysis).direction = "stable"
    /\ The(trend_analysis).peak.value = 203

----------------------------------------------------------------------------
(* Properties of the values of a compiled filter *)

\* C30: in the WHERE clause built for a filter whose dimension resolves,
\* whatever its operator, the literals of the predicate are, in order, all
\* the values of the filter: no value is dropped.
C30_NoValueDropped ==
    (pc = "built" /\ IsSome(resolve_dimension_attribute(filter_obj.dimension)))
    => /\ IsSome(where)
       /\ LiteralsOf(Lex(sql).toks)
              = [i \in 1..Len(filter_obj.values) |-> filter_obj.values[i].chars]

\* a NOT IN or BETWEEN filter with two values was compiled, and the
\* predicate holds one literal, its first value
C30_SecondValueDropped ==
    /\ pc = "built"
    /\ filter_obj.dimension = "state_name"
    /\ filter_obj.operator \in {"NOT IN", "BETWEEN"}
    /\ Len(filter_obj.values) = 2
    /\ The(where)[1].right = <<filter_obj.values[1]>>
    /\ Len(LiteralsOf(Lex(sql).toks)) = 1

----------------------------------------------------------------------------
(* Properties of the table aliases of a compiled query *)

\* the columns of dimension tables that a query tree refers to in SELECT,
\* WHERE, GROUP BY and ORDER BY
DimensionColumnsOf(ast) ==
    LET range == {dimension_mapping[dim] : dim \in DOMAIN dimension_mapping}
        in_select == {ast.select[i].expr.column :
                         i \in {j \in 1..Len(ast.select) : ast.select[j].node = "ColumnRef"}}
        in_where == IF IsSome(ast.where)
                    THEN {The(ast.where)[i].left.column : i \in 1..Len(The(ast.where))}
                    ELSE {}
        in_group_by == IF IsSome(ast.group_by)
                       THEN {The(ast.group_by)[i].column : i \in 1..Len(The(ast.group_by))}
                       ELSE {}
        in_order_by == IF IsSome(ast.order_by)
                       THEN {The(ast.order_by)[i].column.expr.column :
                                i \in {j \in 1..Len(The(ast.order_by)) :
                                          The(ast.order_by)[j].column.node = "ColumnRef"}}
                       ELSE {}
    IN (in_select \cup in_where \cup in_group_by \cup in_order_by) \cap range

\* the alias that qualifies a column of a dimension table
AliasOfColumn(column) ==
    FixedAlias[The(ImpliedTable(CHOOSE dim \in DOMAIN dimension_mapping :
                                    dimension_mapping[dim] = column))]

\* the aliases a query tree declares, by FROM and by its JOINs
DeclaredAliases(ast) ==
    {The(ast.from_clause.alias)} \cup {The(ast.joins[i].alias) : i \in 1..Len(ast.joins)}

\* C26: in a compiled query, FROM declares f, and the alias of every column
\* of a dimension table referred to in SELECT, WHERE, GROUP BY or ORDER BY
\* is declared by a JOIN of the query.
C26_AliasesDeclared ==
    Compiled
    => /\ TheAst.from_clause.alias = Some("f")
       /\ \A column \in DimensionColumnsOf(TheAst) :
              AliasOfColumn(column) \in DeclaredAliases(TheAst)

\* a query filtered on state_name and grouped by nothing passed validation
\* and was compiled: WHERE refers to g.state_name and no table is joined
C26_FilterAliasUndeclared ==
    /\ pc = "compiled"
    /\ errors = <<>>
    /\ TheQuery.dimensionality.group_by = <<>>
    /\ Len(TheQuery.filters) = 1
    /\ TheQuery.filters[1].dimension = "state_name"
    /\ \E i \in 1..Len(The(TheAst.where)) : The(TheAst.where)[i].left.column = "g.state_name"
    /\ TheAst.joins = <<>>
    /\ DeclaredAliases(TheAst) = {"f"}

----------------------------------------------------------------------------
(* Properties of the agreement of validator and compiler *)

\* C27: when validate returns no error for a query, the compilation of the
\* query succeeds, every dimension of group_by resolves to a column that is
\* selected, and every filter dimension resolves to a column that a
\* condition of WHERE refers to.
C27_ValidatorCompilerAgree ==
    (pc \in {"compiled", "failed"} /\ app = "demo_cpg_system" /\ errors = <<>>
        /\ trace = <<"validate", "semantic_query_to_sql">>)
    => /\ ~query_ast.raised
       /\ \A i \in 1..Len(TheQuery.dimensionality.group_by) :
              LET col == resolve_dimension_attribute(TheQuery.dimensionality.group_by[i]) IN
              /\ IsSome(col)
              /\ \E j \in 1..Len(TheAst.select) :
                     /\ TheAst.select[j].node = "ColumnRef"
                     /\ TheAst.select[j].expr.column = The(col)
       /\ \A i \in 1..Len(TheQuery.filters) :
              LET col == resolve_dimension_attribute(TheQuery.filters[i].dimension) IN
              /\ IsSome(col)
              /\ IsSome(TheAst.where)
              /\ \E j \in 1..Len(The(TheAst.where)) :
                     The(TheAst.where)[j].left.column = The(col)

\* validate accepted a query grouped by product and by brand_name, product
\* through the dimension lookup of the catalog alone; the compiler resolves
\* brand_name only, and product is in no clause of the compiled query
C27_CatalogDimensionUnresolved ==
    /\ pc = "compiled"
    /\ errors = <<>>
    /\ TheQuery.dimensionality.group_by = <<"product", "brand_name">>
    /\ IsSome(get_dimension("product"))
    /\ ~is_valid_dimension_attribute("product")
    /\ IsNone(resolve_dimension_attribute("product"))
    /\ Len(TheAst.select) = 2
    /\ TheAst.select[1].expr.column = "p.brand_name"
    /\ TheAst.group_by = Some(<<ColumnRef("p.brand_name", None, None)>>)

----------------------------------------------------------------------------
(* Properties of the scope of a secured query *)

\* C29: the query apply_security returns for a user who is neither admin
\* nor national keeps the filters of the original query, unchanged and in
\* order, and has at least one more filter after them; for an admin or a
\* national user it is the original query.
C29_NeverWidens ==
    (app = "demo_cpg_system" /\ IsSome(secured_query) /\ IsSome(user_context))
    => LET user == The(user_context)
           original == The(semantic_query)
           secured == The(secured_query)
       IN IF user.role = "admin" \/ user.data_access_level = "national"
          THEN secured = original
          ELSE /\ Len(secured.filters) > Len(original.filters)
               /\ SubSeq(secured.filters, 1, Len(original.filters)) = original.filters
               /\ [secured EXCEPT !.filters = original.filters] = original

\* the query secured for the default user of get_user_context_from_role
\* (territory access, no territories) is the original query: no filter was
\* added, and it compiles to a query without a security predicate
C29_EmptyScopeUnfiltered ==
    /\ pc = "compiled"
    /\ The(user_context) = get_user_context_from_role("guest")
    /\ The(user_context).data_access_level = "territory"
    /\ The(user_context).territories = <<>>
    /\ The(semantic_query).filters = <<>>
    /\ The(secured_query) = The(semantic_query)
    /\ security_filters(The(user_context)) = <<>>
    /\ ~query_ast.raised

----------------------------------------------------------------------------
(* The diagnostic workflow of the orchestrator, with the rows the executor
   answers: semantic_layer/orchestrator.py *)

\* A faulty variant of the append below: the pair is put in front.
append_query_front(list, name, ref) == <<[name |-> name, query |-> ref]>> \o list

\* queries.append((name, query)); the query is a reference to an object
append_query(list, name, ref) == Append(list, [name |-> name, query |-> ref])

\* QueryOrchestrator._execute_single, given what executor.execute does:
\* it returns a result with rows, or raises
execute_single_rows(q, answer) ==
    LET built == build_query(q) IN
    IF built.raised THEN built
    ELSE IF answer.raised THEN answer
    ELSE Return([query_type |-> "single", sql |-> built.value, results |-> answer.value])

\* A faulty variant of the slice below: the first four rows.
first_four(contrib_data) ==
    SubSeq(contrib_data, 1, IF Len(contrib_data) < 4 THEN Len(contrib_data) ELSE 4)

\* contrib_data[:5]
first_five(contrib_data) ==
    SubSeq(contrib_data, 1, IF Len(contrib_data) < 5 THEN Len(contrib_data) ELSE 5)

\* the contribution loop of _analyze_diagnostic over results.items(): one
\* entry per key that starts with contribution_ and has rows
RECURSIVE contribution_analysis_of(_)
contribution_analysis_of(dict) ==
    IF dict = <<>> THEN <<>>
    ELSE LET key == Head(dict).name
             contrib_data == Head(dict).value.results
             rest == contribution_analysis_of(Tail(dict))
         IN IF key[1] = "contribution" /\ contrib_data # <<>>
            THEN <<[dimension |-> key[2],
                    top_contributor |-> contrib_data[1],
                    total_contributors |-> Len(contrib_data),
                    top_5 |-> first_five(contrib_data)]>> \o rest
            ELSE rest

\* A faulty variant of _generate_recommendations: the thresholds of the
\* tiers are inclusive.
generate_recommendations_inclusive(trend, contribution_analysis) ==
    LET direction == trend.direction
        change_pct == Abs(trend.change_pct)
    IN (IF direction = "decreasing" /\ change_pct >= 500
        THEN <<<<"[>] Immediate action recommended: Metric declining significantly">>,
               <<"[>] Investigate top contributing segments for root cause">>,
               <<"[>] Consider targeted interventions in high-impact areas">>>>
        ELSE IF direction = "increasing" /\ change_pct >= 1000
        THEN <<<<"[>] Positive trend: Consider scaling successful strategies">>,
               <<"[>] Analyze top performers to replicate success factors">>>>
        ELSE <<<<"[>] Monitor trend for significant changes">>>>)
       \o (IF contribution_analysis # <<>>
           THEN <<<<"[>] Focus analysis on ", contribution_analysis[1].dimension,
                    " - shows highest variation">>>>
           ELSE <<>>)

\* QueryOrchestrator._generate_recommendations: a list of strings, each a
\* sequence of its pieces; change_pct is in hundredths of a percent
generate_recommendations(trend, contribution_analysis) ==
    LET direction == trend.direction
        change_pct == Abs(trend.change_pct)
    IN (IF direction = "decreasing" /\ change_pct > 500
        THEN <<<<"[>] Immediate action recommended: Metric declining significantly">>,
               <<"[>] Investigate top contributing segments for root cause">>,
               <<"[>] Consider targeted interventions in high-impact areas">>>>
        ELSE IF direction = "increasing" /\ change_pct > 1000
        THEN <<<<"[>] Positive trend: Consider scaling successful strategies">>,
               <<"[>] Analyze top performers to replicate success factors">>>>
        ELSE <<<<"[>] Monitor trend for significant changes">>>>)
       \o (IF contribution_analysis # <<>>
           THEN <<<<"[>] Focus analysis on ", contribution_analysis[1].dimension,
                    " - shows highest variation">>>>
           ELSE <<>>)

\* QueryOrchestrator._analyze_diagnostic (the insights are left out)
analyze_diagnostic(dict, q) ==
    LET found == SelectSeq(dict, LAMBDA e : e.name = <<"trend_confirmation">>)
        rows == IF found # <<>> THEN found[1].value.results ELSE <<>>
        trend == analyze_trend([i \in 1..Len(rows) |-> rows[i].value])
        contribution_analysis == contribution_analysis_of(dict)
    IN [trend_analysis |-> trend,
        contribution_analysis |-> contribution_analysis,
        recommendations |-> generate_recommendations(trend, contribution_analysis)]

----------------------------------------------------------------------------
(* SpecDiagnostic: QueryOrchestrator._execute_diagnostic is called with a
   diagnostic query that passed validation and row-level security; the
   executor answers each sub-query with rows, or raises *)

\* the rows of an answer: a dimension value and the value of the metric
Rows(values) == [i \in 1..Len(values) |-> [dimension_value |-> i, value |-> values[i]]]

\* answers to the trend query, in time order
TrendAnswers ==
    {Rows(v) : v \in {<<>>, <<100>>, <<100, 95>>, <<100, 94>>, <<100, 110>>, <<100, 111>>,
                      <<100, 90, 100>>}}

\* answers to a ranking query: at most 10 rows, largest value first
RankingAnswers ==
    {Rows(v) : v \in {<<>>, <<50, 50>>, <<60, 50, 40, 30, 20, 10>>}}

Answers(q) == IF q.intent = "trend" THEN TrendAnswers ELSE RankingAnswers

DiagnosticUsers ==
    {get_user_context_from_role(role) : role \in {"manager", "SO"}}

\* diagnostic queries that pass validation, secured for a user
DiagnosticQueries ==
    {apply_security(q, user) :
        q \in {c \in {[BaseQuery("diagnostic") EXCEPT !.time_context.grain = g,
                                                      !.filters = f, !.diagnostics = dg] :
                         g \in {"day", "week"},
                         f \in {<<>>, <<Filter("state_name", "=", <<StrValue(<<"Tamil Nadu">>)>>)>>},
                         dg \in {None,
                                 Some(Diagnostics(TRUE, "contribution", <<"zone_name">>, "0.05")),
                                 Some(Diagnostics(TRUE, "contribution", <<"zone_name", "brand_name">>, "0.05")),
                                 Some(Diagnostics(TRUE, "contribution", <<"brand_name", "zone_name">>, "0.05")),
                                 Some(Diagnostics(TRUE, "contribution", <<"brand_name", "brand_name">>, "0.05"))}} :
                  validate(c) = <<>>},
        user \in DiagnosticUsers}

InitDiagnostic ==
    /\ pc = "idle"
    /\ app = "orchestrator"
    /\ current_user = None
    /\ user_context = None
    /\ semantic_query \in {Some(q) : q \in DiagnosticQueries}
    /\ heap = <<The(semantic_query)>>
    /\ arg = 1
    /\ returned = <<>>
    /\ applied = ""
    /\ query_ast = None
    /\ errors = <<>>
    /\ secured_query = None
    /\ queries = <<>>
    /\ results = <<>>
    /\ response = None
    /\ trace = <<>>
    /\ LiteralIdle
    /\ AnalysisIdle

\* the names of the sub-queries executed so far, in order
ExecutedNames ==
    LET steps == SelectSeq(trace, LAMBDA s : s[1] = "execute") IN
    [i \in 1..Len(steps) |-> steps[i][2]]

\* trend_query = deepcopy(semantic_query), changed and appended
BuildTrendQuery ==
    /\ pc = "idle"
    /\ LET copy == deepcopy(heap, arg) IN
       /\ heap' = [copy.heap EXCEPT ![copy.ref] = trend_query(copy.heap[copy.ref])]
       /\ queries' = append_query(queries, <<"trend_confirmation">>, copy.ref)
    /\ trace' = Append(trace, <<"build", <<"trend_confirmation">>>>)
    /\ pc' = "build"
    /\ UNCHANGED <<arg, returned, applied, query_ast>>
    /\ UNCHANGED <<app, current_user, user_context, semantic_query, errors, secured_query, results, response>>
    /\ UNCHANGED literalVars
    /\ UNCHANGED analysisVars

\* one turn of the loop over dimensions_to_analyze:
\* contrib_query = deepcopy(semantic_query), changed and appended
BuildContributionQuery ==
    /\ pc = "build"
    /\ LET dimensions_to_analyze == get_diagnostic_dimensions(heap[arg])
           built == Len(SelectSeq(trace, LAMBDA s : s[1] = "build")) - 1
           dim == dimensions_to_analyze[built + 1]
           copy == deepcopy(heap, arg)
       IN /\ built < Len(dimensions_to_analyze)
          /\ heap' = [copy.heap EXCEPT ![copy.ref] = contrib_query(copy.heap[copy.ref], dim)]
          /\ queries' = append_query(queries, <<"contribution", dim>>, copy.ref)
          /\ trace' = Append(trace, <<"build", <<"contribution", dim>>>>)
          /\ pc' = IF built + 1 = Len(dimensions_to_analyze) THEN "execute" ELSE "build"
    /\ UNCHANGED <<arg, returned, applied, query_ast>>
    /\ UNCHANGED <<app, current_user, user_context, semantic_query, errors, secured_query, results, response>>
    /\ UNCHANGED literalVars
    /\ UNCHANGED analysisVars

\* one turn of the loop over queries: results[name] = _execute_single(query);
\* an exception ends the call
ExecuteNext(answer) ==
    /\ pc = "execute"
    /\ LET next == queries[Len(ExecutedNames) + 1]
           stored == loop_body(results, next.name, execute_single_rows(heap[next.query], answer))
       IN IF stored.raised
          THEN /\ pc' = "raised"
               /\ trace' = Append(trace, <<"raise", next.name>>)
               /\ UNCHANGED results
          ELSE /\ results' = stored.value
               /\ trace' = Append(trace, <<"execute", next.name>>)
               /\ pc' = IF Len(ExecutedNames) + 1 = Len(queries) THEN "synthesize"
                        ELSE "execute"
    /\ UNCHANGED <<heap, arg, returned, applied, query_ast>>
    /\ UNCHANGED <<app, current_user, user_context, semantic_query, errors, secured_query, queries, response>>
    /\ UNCHANGED literalVars
    /\ UNCHANGED analysisVars

\* the executor answers the next sub-query with rows
ExecutorAnswers ==
    /\ pc = "execute"
    /\ \E rows \in Answers(heap[queries[Len(ExecutedNames) + 1].query]) : ExecuteNext(Return(rows))

\* the executor raises on the next sub-query
ExecutorRaises ==
    /\ pc = "execute"
    /\ ExecuteNext(Raise("Exception"))

\* analysis = self._analyze_diagnostic(results, semantic_query), and the
\* dict is returned
Synthesize ==
    /\ pc = "synthesize"
    /\ response' = Some([query_type |-> "diagnostic",
                         sub_queries |-> results,
                         analysis |-> analyze_diagnostic(results, heap[arg]),
                         metadata |-> [total_queries |-> Len(queries),
                                       intent |-> "diagnostic"]])
    /\ trace' = Append(trace, <<"synthesize">>)
    /\ pc' = "done"
    /\ UNCHANGED <<heap, arg, returned, applied, query_ast>>
    /\ UNCHANGED <<app, current_user, user_context, semantic_query, errors, secured_query, queries, results>>
    /\ UNCHANGED literalVars
    /\ UNCHANGED analysisVars

NextDiagnostic ==
    \/ BuildTrendQuery
    \/ BuildContributionQuery
    \/ ExecutorAnswers
    \/ ExecutorRaises
    \/ Synthesize

SpecDiagnostic == InitDiagnostic /\ [][NextDiagnostic]_vars

\* the workflow with an executor that always answers: no step of the call
\* waits for anything but the executor, so the call goes on until it ends
NextAnswered ==
    \/ BuildTrendQuery
    \/ BuildContributionQuery
    \/ ExecutorAnswers
    \/ Synthesize

SpecDiagnosticAnswered == InitDiagnostic /\ [][NextAnswered]_vars /\ WF_vars(NextAnswered)

----------------------------------------------------------------------------
(* Properties of the order of the diagnostic workflow *)

\* the input of the workflow, and the names of its 1+N sub-queries
TheInput == The(semantic_query)
ExpectedNames ==
    LET dims == get_diagnostic_dimensions(TheInput) IN
    <<<<"trend_confirmation">>>> \o [i \in 1..Len(dims) |-> <<"contribution", dims[i]>>]

\* the steps of the trace are builds, then executions, then the synthesis:
\* the builds are those of the 1+N sub-queries in order, an execution comes
\* only after all of them, the executions are the sub-queries in order, each
\* once, and the synthesis comes only after all 1+N executions
WorkflowOrder ==
    LET n == Len(ExpectedNames)
        kind(i) == trace[i][1]
    IN /\ \A i \in 1..Len(trace) :
              /\ i <= n => trace[i] = <<"build", ExpectedNames[i]>>
              /\ (i > n /\ i <= 2 * n) => trace[i] = <<"execute", ExpectedNames[i - n]>>
              /\ i > 2 * n => (i = 2 * n + 1 /\ trace[i] = <<"synthesize">>)
       /\ Len(ExecutedNames) > 0
              => [i \in 1..Len(queries) |-> queries[i].name] = ExpectedNames
       /\ Len(results) <= Len(ExecutedNames)
       /\ IsSome(response) <=> (Len(trace) = 2 * n + 1)
       /\ (pc = "done") <=> IsSome(response)

\* C21: in a diagnostic workflow whose executor always answers, the 1+N
\* sub-queries are all built before the first execution, they are executed
\* once each, the trend query first and the contribution queries in the
\* order of the dimensions, the synthesis starts after the last execution
\* has returned, and the workflow reaches done.
C21_DiagnosticWorkflow ==
    /\ [](app = "orchestrator" => WorkflowOrder)
    /\ <>(pc = "done" /\ IsSome(response))

\* a workflow over zone_name and brand_name is done after three builds,
\* three executions and the synthesis
C21_Witness ==
    /\ pc = "done"
    /\ app = "orchestrator"
    /\ trace = <<<<"build", <<"trend_confirmation">>>>,
                 <<"build", <<"contribution", "zone_name">>>>,
                 <<"build", <<"contribution", "brand_name">>>>,
                 <<"execute", <<"trend_confirmation">>>>,
                 <<"execute", <<"contribution", "zone_name">>>>,
                 <<"execute", <<"contribution", "brand_name">>>>,
                 <<"synthesize">>>>
    /\ Len(results) = 3
    /\ The(response).metadata.total_queries = 3

----------------------------------------------------------------------------
(* Properties of the recommendations *)

\* the analysis a completed workflow returned
Done == pc = "done" /\ app = "orchestrator" /\ IsSome(response)
TheAnalysis == The(response).analysis

\* the strings of the three tiers
ImmediateTier ==
    <<<<"[>] Immediate action recommended: Metric declining significantly">>,
      <<"[>] Investigate top contributing segments for root cause">>,
      <<"[>] Consider targeted interventions in high-impact areas">>>>
ScaleTier ==
    <<<<"[>] Positive trend: Consider scaling successful strategies">>,
      <<"[>] Analyze top performers to replicate success factors">>>>
MonitorTier == <<<<"[>] Monitor trend for significant changes">>>>

\* the recommendations start with the strings of one tier, and hold no
\* string of another tier
Emits(recommendations, tier) ==
    /\ Len(recommendations) >= Len(tier)
    /\ SubSeq(recommendations, 1, Len(tier)) = tier
    /\ \A i \in (Len(tier) + 1)..Len(recommendations) :
           \A other \in {ImmediateTier, ScaleTier, MonitorTier} :
               \A j \in 1..Len(other) : recommendations[i] # other[j]

\* C23: the recommendations of a trend analysis hold the strings of exactly
\* one tier: the immediate-action tier iff the direction is decreasing and
\* |change_pct| > 5, the scale tier iff the direction is increasing and
\* |change_pct| > 10, the monitor tier in every other case.
C23_OneTier ==
    Done
    => LET trend == TheAnalysis.trend_analysis
           recommendations == TheAnalysis.recommendations
           immediate == trend.direction = "decreasing" /\ Abs(trend.change_pct) > 500
           scale == trend.direction = "increasing" /\ Abs(trend.change_pct) > 1000
       IN /\ Emits(recommendations, ImmediateTier) <=> immediate
          /\ Emits(recommendations, ScaleTier) <=> scale
          /\ Emits(recommendations, MonitorTier) <=> (~immediate /\ ~scale)
          /\ \/ Emits(recommendations, ImmediateTier)
             \/ Emits(recommendations, ScaleTier)
             \/ Emits(recommendations, MonitorTier)

\* the trend 100, 94 (a fall of 6 percent) gave the immediate-action tier
C23_Witness ==
    /\ Done
    /\ TheAnalysis.trend_analysis.direction = "decreasing"
    /\ TheAnalysis.trend_analysis.change_pct = 0 - 600
    /\ Emits(TheAnalysis.recommendations, ImmediateTier)

\* the trend 100, 111 gave the scale tier, the trends 100, 95 and 100, 110
\* (changes of exactly 5 and 10 percent) and a single point the monitor tier
C23_WitnessScale ==
    /\ Done
    /\ TheAnalysis.trend_analysis.direction = "increasing"
    /\ TheAnalysis.trend_analysis.change_pct = 1100
    /\ Emits(TheAnalysis.recommendations, ScaleTier)
C23_WitnessMonitor ==
    /\ Done
    /\ TheAnalysis.trend_analysis.direction \in {"decreasing", "increasing"}
    /\ Abs(TheAnalysis.trend_analysis.change_pct) \in {500, 1000}
    /\ Emits(TheAnalysis.recommendations, MonitorTier)
C23_WitnessInsufficient ==
    /\ Done
    /\ TheAnalysis.trend_analysis.direction = "insufficient_data"
    /\ Emits(TheAnalysis.recommendations, MonitorTier)

----------------------------------------------------------------------------
(* Properties of the dimension-specific recommendation *)

\* the contribution results of the workflow: the analysed dimension and the
\* rows of its ranking
ContributionResults ==
    LET found == SelectSeq(results, LAMBDA e : e.name[1] = "contribution") IN
    [i \in 1..Len(found) |-> [dimension |-> found[i].name[2],
                              rows |-> found[i].value.results]]

\* the variation observed in the rows of one dimension: the distance
\* between the largest and the smallest value (0 for no rows)
Variation(rows) ==
    IF rows = <<>> THEN 0
    ELSE LET values == {rows[i].value : i \in 1..Len(rows)}
         IN (CHOOSE v \in values : \A w \in values : v >= w)
            - (CHOOSE v \in values : \A w \in values : v <= w)

\* the dimension the last recommendation names, if it is the
\* dimension-specific one
FocusDimension ==
    LET last == TheAnalysis.recommendations[Len(TheAnalysis.recommendations)] IN
    IF Len(last) = 3 THEN Some(last[2]) ELSE None

\* C24: when at least one dimension was analysed, the dimension-specific
\* recommendation names a dimension whose contribution result shows the
\* largest variation among the contribution results of the workflow.
C24_NamesLargestVariation ==
    (Done /\ ContributionResults # <<>>)
    => /\ IsSome(FocusDimension)
       /\ \E i \in 1..Len(ContributionResults) :
              /\ ContributionResults[i].dimension = The(FocusDimension)
              /\ \A j \in 1..Len(ContributionResults) :
                     Variation(ContributionResults[i].rows)
                         >= Variation(ContributionResults[j].rows)

\* zone_name and brand_name were analysed in this order; every zone has the
\* value 50, the brands range from 60 to 10, and the recommendation names
\* zone_name
C24_FirstDimensionNamed ==
    /\ Done
    /\ The(TheInput.diagnostics).dimensions = <<"zone_name", "brand_name">>
    /\ Len(ContributionResults) = 2
    /\ Variation(ContributionResults[1].rows) = 0
    /\ Variation(ContributionResults[2].rows) = 50
    /\ FocusDimension = Some("zone_name")

\* with the dimensions listed the other way round and the same rows per
\* dimension, the recommendation names brand_name
C24_OtherOrder ==
    /\ Done
    /\ The(TheInput.diagnostics).dimensions = <<"brand_name", "zone_name">>
    /\ Len(ContributionResults) = 2
    /\ Variation(ContributionResults[1].rows) = 50
    /\ Variation(ContributionResults[2].rows) = 0
    /\ FocusDimension = Some("brand_name")

----------------------------------------------------------------------------
(* Properties of the contribution analysis *)

\* the entry the analysis holds for a contribution result with rows
EntryOf(result) ==
    [dimension |-> result.dimension,
     top_contributor |-> result.rows[1],
     total_contributors |-> Len(result.rows),
     top_5 |-> [i \in 1..(IF Len(result.rows) < 5 THEN Len(result.rows) ELSE 5) |->
                   result.rows[i]]]

----------------------------------------------------------------------------
(* Properties of what the sub-queries keep of the input *)

\* C28: every sub-query of a diagnostic workflow is an object other than
\* the input; its filters, metric_request and time_context are those of the
\* input, it differs from the input in intent, group_by and sorting only,
\* and the input object keeps the value it had when the workflow started.
C28_SubQueriesKeepInput ==
    app = "orchestrator"
    => /\ heap[arg] = TheInput
       /\ \A i \in 1..Len(queries) :
              LET sub == heap[queries[i].query] IN
              /\ queries[i].query # arg
              /\ sub.filters = TheInput.filters
              /\ sub.metric_request = TheInput.metric_request
              /\ sub.time_context = TheInput.time_context
              /\ sub.intent # TheInput.intent
              /\ [sub EXCEPT !.intent = TheInput.intent,
                             !.dimensionality.group_by = TheInput.dimensionality.group_by,
                             !.sorting = TheInput.sorting] = TheInput

\* the workflow of a query with a filter on state_name and the zone_name
\* filter of row-level security is done: its three sub-queries carry both
\* filters
C28_Witness ==
    /\ Done
    /\ Len(TheInput.filters) = 2
    /\ TheInput.filters[1].dimension = "state_name"
    /\ TheInput.filters[2] = security_filter("zone_name", <<"North", "South">>)
    /\ Len(queries) = 3
    /\ heap[queries[1].query].intent = "trend"
    /\ heap[queries[3].query].intent = "ranking"
    /\ \A i \in 1..3 : heap[queries[i].query].filters = TheInput.filters
    /\ heap[queries[2].query].sorting = Some(Sorting("secondary_sales_value", "DESC", Some(10)))

============================================================================
